---------------------------- MODULE Spec2Model ----------------------------
(***************************************************************************)
(* Coordinator versioned key-value store of dingo-store                    *)
(* (src/src/coordinator/kv_control_kv.cc): the key-index map, the revision *)
(* map, the request handlers KvRange / KvPut / KvDeleteRange / KvCompact   *)
(* and the state-machine steps KvPutApply / KvDeleteApply / KvCompactApply.*)
(* Strings are sequences of bytes (0..255).                                *)
(***************************************************************************)
EXTENDS Integers, Sequences, FiniteSets, TLC

\* ------------------------------------------------------------------ bounds
\* FLAGS_max_kv_key_size (4096 in the source), scaled down
MaxKvKeySize == 2
\* FLAGS_max_kv_value_size (8192 in the source), scaled down
MaxKvValueSize == 1
\* largest main revision the revision clock hands out, per specification
MaxRev == 3
MaxRevLease == 2
MaxRevCompact == 2
MaxRevWatch == 2
MaxRevTxn == 2
\* largest number of sub-commands waiting in the replicated log
MaxPending == 2
\* largest number of KvRevs written directly into the revision map
MaxStored == 3

\* --------------------------------------------------------------- universes
KeyA == <<1>>
\* the largest key KvPut accepts: max_kv_key_size bytes of 0xff
KeyMax == [i \in 1..MaxKvKeySize |-> 255]
Keys == {KeyA, KeyMax}
\* a second ordinary key, for the requests that delete a range of two keys
KeyB == <<2>>
TxnKeys == {KeyA, KeyB}
EmptyStr == <<>>
\* a key one byte over max_kv_key_size
KeyTooLong == [i \in 1..(MaxKvKeySize + 1) |-> 1]
ValX == <<7>>
ValY == <<8>>
ValTooLong == [i \in 1..(MaxKvValueSize + 1) |-> 9]
Values == {ValX, ValY}
LeaseIds == {1}
\* range_end == std::string(1, '\0')
ZeroByte == <<0>>

\* a butil::Status is modelled by its message; all but OK are errors
OK == "OK"
EKeyEmpty == "KvPut key is empty"
EKeyTooLong == "KvPut key is too long"
EValueEmpty == "KvPut value is empty"
EValueTooLong == "KvPut value is too long"
EIgnoreLeaseNotFound == "KvPut ignore_lease, but not found key"
ELeaseNotMatch == "KvPut lease_id not match"
ELeaseNotExists == "KvPutApply kv_lease_map_.Exists failed"
EIndexNotFound == "GetRawKvIndex not found"
\* the error of the lease registry for an unknown lease id
ELEASE == "lease not found"

\* ------------------------------------------------------------ byte strings
RECURSIVE StrLess(_, _)
\* std::string::compare(a, b) < 0 : lexicographic order on unsigned bytes
StrLess(a, b) ==
  IF Len(b) = 0 THEN FALSE
  ELSE IF Len(a) = 0 THEN TRUE
  ELSE IF a[1] # b[1] THEN a[1] < b[1]
  ELSE StrLess(Tail(a), Tail(b))

StrLeq(a, b) == a = b \/ StrLess(a, b)

\* the element of a one-element set
Only(S) == CHOOSE x \in S : TRUE

RECURSIVE SortedSeq(_)
\* the keys of a set in ascending order (iteration order of the ordered map)
SortedSeq(S) ==
  IF S = {} THEN <<>>
  ELSE LET m == CHOOSE x \in S : \A y \in S : StrLeq(x, y)
       IN <<m>> \o SortedSeq(S \ {m})

\* --------------------------------------------------------------- revisions
Rev(m, s) == [main |-> m, sub |-> s]
\* a default-constructed RevisionInternal
NoRev == Rev(0, 0)

RevLess(r1, r2) == r1.main < r2.main \/ (r1.main = r2.main /\ r1.sub < r2.sub)

\* Buf::WriteLong : 8 bytes, most significant first. Every revision of the
\* model is below 2^31, so the four high bytes are zero.
WriteLong(n) ==
  <<0, 0, 0, 0, (n \div 16777216) % 256, (n \div 65536) % 256, (n \div 256) % 256, n % 256>>

RECURSIVE ReadLongFrom(_, _, _)
ReadLongFrom(bytes, i, acc) ==
  IF i > Len(bytes) THEN acc ELSE ReadLongFrom(bytes, i + 1, acc * 256 + bytes[i])

\* Buf::ReadLong
ReadLong(bytes) == ReadLongFrom(bytes, 1, 0)

\* '_'
Separator == 95

\* an encoding that writes sub before main
RevisionToStringSubFirst(revision) ==
  WriteLong(revision.sub) \o <<Separator>> \o WriteLong(revision.main)

RevisionToString(revision) ==
  WriteLong(revision.main) \o <<Separator>> \o WriteLong(revision.sub)

StringToRevision(input_string) ==
  IF Len(input_string) # 17 THEN NoRev
  ELSE Rev(ReadLong(SubSeq(input_string, 1, 8)), ReadLong(SubSeq(input_string, 10, 17)))

\* ----------------------------------------------------------------- records
\* a generation without create_revision: the record of a delete
NullGeneration ==
  [has_create_revision |-> FALSE, create_revision |-> NoRev, verison |-> 0, revisions |-> <<>>]

NewGeneration(op_revision) ==
  [has_create_revision |-> TRUE, create_revision |-> op_revision, verison |-> 1,
   revisions |-> <<op_revision>>]

\* a default-constructed KvRevInternal
NoKvRev ==
  [id |-> EmptyStr, value |-> EmptyStr, create_revision |-> NoRev, mod_revision |-> NoRev,
   version |-> 0, lease |-> 0, is_deleted |-> FALSE]

\* a default-constructed pb::version::Kv
NoKv ==
  [key |-> EmptyStr, value |-> EmptyStr, create_revision |-> 0, mod_revision |-> 0,
   version |-> 0, lease |-> 0]

\* INT64_MAX, the limit KvRange uses for "no limit" (the largest integer of the model)
Int64Max == 2147483647

\* -------------------------------------------------------------- raw access
\* GetRawKvIndex succeeded
HasKvIndex(im, key) == key \in DOMAIN im

\* GetRawKvRev: the KvRev at a revision, or a default-constructed one
HasKvRev(rm, revision) == RevisionToString(revision) \in DOMAIN rm

GetRawKvRev(rm, revision) ==
  IF HasKvRev(rm, revision) THEN rm[RevisionToString(revision)] ELSE NoKvRev

\* kv_index_map_.Put / kv_rev_map_.Put / Erase
MapPut(m, k, v) == [x \in (DOMAIN m) \cup {k} |-> IF x = k THEN v ELSE m[x]]

MapErase(m, k) == [x \in (DOMAIN m) \ {k} |-> m[x]]

PutRawKvIndex(im, key, kv_index) == MapPut(im, key, kv_index)

DeleteRawKvIndex(im, key) == MapErase(im, key)

\* a PutRawKvRev that keeps nothing but the KvRev it writes
PutRawKvRevAlone(rm, revision, kv_rev) == MapPut(<<>>, RevisionToString(revision), kv_rev)

PutRawKvRev(rm, revision, kv_rev) == MapPut(rm, RevisionToString(revision), kv_rev)

DeleteRawKvRev(rm, revision) == MapErase(rm, RevisionToString(revision))

\* Helper::PrefixNext : the smallest string greater than every string with
\* this prefix (empty when there is none)
RECURSIVE PrefixNext(_)
PrefixNext(key) ==
  IF Len(key) = 0 THEN EmptyStr
  ELSE IF key[Len(key)] = 255 THEN PrefixNext(SubSeq(key, 1, Len(key) - 1))
  ELSE SubSeq(key, 1, Len(key) - 1) \o <<key[Len(key)] + 1>>

\* the last generation is a put generation that lists a revision
LatestGenerationOpen(kv_index) ==
  LET generation_count == Len(kv_index.generations)
  IN /\ generation_count # 0
     /\ kv_index.generations[generation_count].has_create_revision
     /\ Len(kv_index.generations[generation_count].revisions) # 0

\* the value filter RangeRawKvIndex hands to GetRangeValues
RangeFilter(key, range_end, version_kv) ==
  /\ LatestGenerationOpen(version_kv)
  /\ IF range_end = EmptyStr THEN key = version_kv.id
     ELSE IF range_end = ZeroByte THEN StrLeq(key, version_kv.id)
     ELSE StrLeq(key, version_kv.id) /\ StrLess(version_kv.id, range_end)

\* DingoSafeMap::GetRangeValues : the keys in [lower_bound, upper_bound), ascending
GetRangeKeys(im, lower_bound, upper_bound) ==
  SortedSeq({k \in DOMAIN im : StrLeq(lower_bound, k) /\ StrLess(k, upper_bound)})

\* an upper bound that is always that of a point get
UpperBoundOfKey(key, range_end) == PrefixNext(key)

\* the upper bound RangeRawKvIndex scans to
UpperBound(key, range_end) ==
  IF range_end = ZeroByte THEN KeyMax
  ELSE IF range_end = EmptyStr THEN PrefixNext(key)
  ELSE range_end

RangeRawKvIndex(im, key, range_end) ==
  LET upper_bound == UpperBound(key, range_end)
      Keep(k) == RangeFilter(key, range_end, im[k])
      ks == SelectSeq(GetRangeKeys(im, key, upper_bound), Keep)
  IN [i \in 1..Len(ks) |-> im[ks[i]]]

\* the pb::version::Kv KvRange builds from a KvRev
KvOfRev(kv_in_rev, keys_only) ==
  [key |-> kv_in_rev.id,
   value |-> IF keys_only THEN EmptyStr ELSE kv_in_rev.value,
   create_revision |-> kv_in_rev.create_revision.main,
   mod_revision |-> kv_in_rev.mod_revision.main,
   version |-> kv_in_rev.version,
   lease |-> kv_in_rev.lease]

RECURSIVE KvRangeLoop(_, _, _, _, _, _, _, _)
\* the loop of KvRange over kv_index_values, from element i
KvRangeLoop(rm, kv_index_values, i, limit_count, limit, keys_only, count_only, kv) ==
  IF i > Len(kv_index_values) THEN kv
  ELSE LET kv_index_value == kv_index_values[i]
       IN IF ~LatestGenerationOpen(kv_index_value)
          THEN KvRangeLoop(rm, kv_index_values, i + 1, limit_count, limit, keys_only, count_only, kv)
          ELSE IF limit_count + 1 > limit THEN kv
          ELSE IF count_only
          THEN KvRangeLoop(rm, kv_index_values, i + 1, limit_count + 1, limit, keys_only, count_only, kv)
          ELSE IF ~HasKvRev(rm, kv_index_value.mod_revision)
          THEN KvRangeLoop(rm, kv_index_values, i + 1, limit_count + 1, limit, keys_only, count_only, kv)
          ELSE KvRangeLoop(rm, kv_index_values, i + 1, limit_count + 1, limit, keys_only, count_only,
                           Append(kv, KvOfRev(GetRawKvRev(rm, kv_index_value.mod_revision), keys_only)))

\* KvRange on the maps (im, rm); kv is empty on entry and total_in is what the
\* caller's total_count_in_range holds on entry
KvRange(im, rm, key, range_end, limit_in, keys_only, count_only, total_in) ==
  LET limit == IF limit_in = 0 THEN Int64Max ELSE limit_in
  IN IF range_end = EmptyStr /\ ~HasKvIndex(im, key)
     THEN [status |-> OK, kv |-> <<>>, total_count_in_range |-> total_in]
     ELSE LET kv_index_values == IF range_end = EmptyStr THEN <<im[key]>>
                                 ELSE RangeRawKvIndex(im, key, range_end)
              kv == KvRangeLoop(rm, kv_index_values, 1, 0, limit, keys_only, count_only, <<>>)
          IN [status |-> OK, kv |-> kv, total_count_in_range |-> Len(kv)]

\* KvRangeRawKeys
KvRangeRawKeys(im, key, range_end) ==
  IF range_end = EmptyStr
  THEN IF HasKvIndex(im, key) THEN <<key>> ELSE <<>>
  ELSE LET vs == RangeRawKvIndex(im, key, range_end) IN [i \in 1..Len(vs) |-> vs[i].id]


\* ------------------------------------------------------------------ leases
\* LeaseQuery: the lease exists
LeaseQuery(lm, lease_id) == IF lease_id \in DOMAIN lm THEN OK ELSE ELEASE

\* LeaseAddKeys: bind keys to an existing lease
LeaseAddKeys(lm, lease_id, keys) ==
  IF lease_id \in DOMAIN lm
  THEN [status |-> OK, lm |-> [lm EXCEPT ![lease_id] = @ \cup keys]]
  ELSE [status |-> ELEASE, lm |-> lm]

\* LeaseRemoveMultiLeaseKeys: unbind keys, lease by lease
LeaseRemoveMultiLeaseKeys(lm, keys_to_remove_lease) ==
  IF \E l \in DOMAIN keys_to_remove_lease : l \notin DOMAIN lm
  THEN [status |-> ELEASE, lm |-> lm]
  ELSE [status |-> OK,
        lm |-> [l \in DOMAIN lm |->
                  IF l \in DOMAIN keys_to_remove_lease
                  THEN lm[l] \ keys_to_remove_lease[l] ELSE lm[l]]]

\* ------------------------------------------------------------ sub-commands
PutCmd(key, revision, ignore_lease, lease_id, ignore_value, value) ==
  [event_type |-> "PUT", id |-> key, op_revision |-> revision, ignore_lease |-> ignore_lease,
   lease_id |-> lease_id, ignore_value |-> ignore_value, value |-> value]

DeleteCmd(key, revision) ==
  [event_type |-> "DELETE", id |-> key, op_revision |-> revision, ignore_lease |-> FALSE,
   lease_id |-> 0, ignore_value |-> FALSE, value |-> EmptyStr]

CompactCmd(key, revision) ==
  [event_type |-> "COMPACTION", id |-> key, op_revision |-> revision, ignore_lease |-> FALSE,
   lease_id |-> 0, ignore_value |-> FALSE, value |-> EmptyStr]

LeaseRevokeCmd(lease_id) ==
  [event_type |-> "LEASE_REVOKE", id |-> EmptyStr, op_revision |-> NoRev, ignore_lease |-> FALSE,
   lease_id |-> lease_id, ignore_value |-> FALSE, value |-> EmptyStr]

\* ------------------------------------------------------------------- KvPut
\* what KvPut leaves behind when it returns an error before touching anything
KvPutFail(status, lm, sub_revision) ==
  [status |-> status, cmds |-> <<>>, sub_revision |-> sub_revision, lm |-> lm, prev_kv |-> NoKv]

\* the sub-command KvPut adds to the MetaIncrement: ignore_value and value are
\* set only inside "if (!ignore_value)", so a put that ignores the value
\* carries ignore_value = false and an empty value
KvPutIncrement(key, value, main_revision, sub_revision, ignore_value, ignore_lease, lease_grant_id) ==
  PutCmd(key, Rev(main_revision, sub_revision), ignore_lease, lease_grant_id,
         FALSE, IF ~ignore_value THEN value ELSE EmptyStr)

\* KvPut leaving sub_revision where it was
KvPutNoSubStep == 1 - 1

\* by how much KvPut advances sub_revision
KvPutSubStep == 1

\* a KvPut that accepts ignore_lease on a key without a live kv
IgnoreLeaseAccepted(ignore_lease, kvs_temp) == FALSE

\* ignore_lease is set and KvRange found no live kv of the key
IgnoreLeaseNotFound(ignore_lease, kvs_temp) == ignore_lease /\ kvs_temp = <<>>

\* a KvPut that does not compare the lease of the key with lease_id
LeaseNotCompared(ignore_lease, kvs_temp, lease_id) == FALSE

\* the key has a live kv whose lease is not the lease_id of the put
LeaseNotMatch(ignore_lease, kvs_temp, lease_id) ==
  ~ignore_lease /\ kvs_temp # <<>> /\ kvs_temp[1].lease # lease_id

\* a KvPut that returns no prev_kv
PrevKvNotSet(need_prev_kv, kvs_temp) == NoKv

\* "get prev_kvs": the kv KvRange found when need_prev_kv is set, else the
\* caller's default-constructed Kv
PrevKv(need_prev_kv, kvs_temp) ==
  IF need_prev_kv /\ kvs_temp # <<>> THEN kvs_temp[1] ELSE NoKv

\* a key check that also rejects a key of exactly max_kv_key_size bytes
KeyAtLeastMaxSize(key) == Len(key) >= MaxKvKeySize

\* "check key length": key.size() > FLAGS_max_kv_key_size
KeyTooLongCheck(key) == Len(key) > MaxKvKeySize

\* KvPut: [status, cmds added to the MetaIncrement, sub_revision, lease map, prev_kv];
\* the caller's lease_grant_id is 0 on entry
KvPut(im, rm, lm, key, value, lease_id, need_prev_kv, ignore_value, ignore_lease, main_revision, sub_revision) ==
  IF key = EmptyStr THEN KvPutFail(EKeyEmpty, lm, sub_revision)
  ELSE IF KeyTooLongCheck(key) THEN KvPutFail(EKeyTooLong, lm, sub_revision)
  ELSE IF ~ignore_value /\ value = EmptyStr THEN KvPutFail(EValueEmpty, lm, sub_revision)
  ELSE IF ~ignore_value /\ Len(value) > MaxKvValueSize THEN KvPutFail(EValueTooLong, lm, sub_revision)
  ELSE IF ~ignore_lease /\ lease_id # 0 /\ LeaseQuery(lm, lease_id) # OK
  THEN KvPutFail(LeaseQuery(lm, lease_id), lm, sub_revision)
  ELSE
    LET kvs_temp == KvRange(im, rm, key, EmptyStr, 1, FALSE, FALSE, 0).kv
        lease_grant_id0 == IF ~ignore_lease /\ lease_id # 0 THEN lease_id ELSE 0
        lease_grant_id == IF kvs_temp # <<>> THEN kvs_temp[1].lease ELSE lease_grant_id0
    IN IF IgnoreLeaseNotFound(ignore_lease, kvs_temp)
       THEN KvPutFail(EIgnoreLeaseNotFound, lm, sub_revision)
       ELSE IF LeaseNotMatch(ignore_lease, kvs_temp, lease_id)
       THEN KvPutFail(ELeaseNotMatch, lm, sub_revision)
       ELSE
         LET added == IF lease_grant_id # 0 THEN LeaseAddKeys(lm, lease_grant_id, {key})
                      ELSE [status |-> OK, lm |-> lm]
         IN IF added.status # OK THEN KvPutFail(added.status, lm, sub_revision)
            ELSE [status |-> OK,
                  cmds |-> <<KvPutIncrement(key, value, main_revision, sub_revision,
                                            ignore_value, ignore_lease, lease_grant_id)>>,
                  sub_revision |-> sub_revision + KvPutSubStep,
                  lm |-> added.lm,
                  prev_kv |-> PrevKv(need_prev_kv, kvs_temp)]

\* ----------------------------------------------------------- KvDeleteRange
\* keys_to_remove_lease after the loop: insert_or_assign(lease, {key}) for each
\* deleted kv with a lease, in order
RECURSIVE KeysToRemoveLease(_, _, _)
KeysToRemoveLease(kvs_to_delete, i, acc) ==
  IF i > Len(kvs_to_delete) THEN acc
  ELSE IF kvs_to_delete[i].lease = 0 THEN KeysToRemoveLease(kvs_to_delete, i + 1, acc)
  ELSE KeysToRemoveLease(kvs_to_delete, i + 1,
                         MapPut(acc, kvs_to_delete[i].lease, {kvs_to_delete[i].key}))

\* the DELETE sub-commands: one per kv to delete, each at its own sub revision
KvDeleteIncrements(kvs_to_delete, main_revision, sub_revision) ==
  [i \in 1..Len(kvs_to_delete) |->
     DeleteCmd(kvs_to_delete[i].key, Rev(main_revision, sub_revision + i - 1))]

\* KvDeleteRange: [status, cmds, sub_revision, lease map, deleted_count, prev_kvs];
\* deleted_count_in is what the caller's variable holds on entry
KvDeleteRange(im, rm, lm, key, range_end, need_prev_kv, main_revision, sub_revision, need_lease_remove_keys, deleted_count_in) ==
  LET key_only == ~need_prev_kv
      kvs_to_delete == KvRange(im, rm, key, range_end, Int64Max, key_only, FALSE, 0).kv
      cmds == KvDeleteIncrements(kvs_to_delete, main_revision, sub_revision)
      keys_to_remove_lease == KeysToRemoveLease(kvs_to_delete, 1, <<>>)
      removed == IF need_lease_remove_keys /\ DOMAIN keys_to_remove_lease # {}
                 THEN LeaseRemoveMultiLeaseKeys(lm, keys_to_remove_lease)
                 ELSE [status |-> OK, lm |-> lm]
  IN IF removed.status # OK
     THEN [status |-> removed.status, cmds |-> cmds,
           sub_revision |-> sub_revision + Len(kvs_to_delete), lm |-> lm,
           deleted_count |-> deleted_count_in, prev_kvs |-> <<>>,
           keys_to_remove_lease |-> keys_to_remove_lease]
     ELSE [status |-> OK, cmds |-> cmds,
           sub_revision |-> sub_revision + Len(kvs_to_delete), lm |-> removed.lm,
           deleted_count |-> IF kvs_to_delete # <<>> THEN Len(kvs_to_delete) ELSE deleted_count_in,
           prev_kvs |-> IF need_prev_kv THEN kvs_to_delete ELSE <<>>,
           keys_to_remove_lease |-> keys_to_remove_lease]


\* -------------------------------------------------------------- KvPutApply
NoEvent == [type |-> "NONE", key |-> EmptyStr, new_kv |-> NoKv, prev_kv |-> NoKv]

\* TriggerOneWatch sending the event without the previous kv
TriggerOneWatchNoPrev(wm, key, type, new_kv, prev_kv) ==
  IF key \in wm
  THEN [wm |-> wm \ {key}, event |-> [type |-> type, key |-> key, new_kv |-> new_kv, prev_kv |-> NoKv]]
  ELSE [wm |-> wm, event |-> NoEvent]

\* TriggerOneWatch: a pending one-shot watch on the key fires and is removed
TriggerOneWatch(wm, key, type, new_kv, prev_kv) ==
  IF key \in wm
  THEN [wm |-> wm \ {key}, event |-> [type |-> type, key |-> key, new_kv |-> new_kv, prev_kv |-> prev_kv]]
  ELSE [wm |-> wm, event |-> NoEvent]

\* PutGenerations without the increment of the version of an open generation
PutGenerationsKeepVersion(generations, op_revision) ==
  LET n == Len(generations)
  IN IF n = 0 THEN <<[has_create_revision |-> TRUE, create_revision |-> op_revision,
                      verison |-> 1, revisions |-> <<op_revision>>]>>
     ELSE IF generations[n].has_create_revision
     THEN [generations EXCEPT ![n] = [@ EXCEPT !.revisions = Append(@, op_revision)]]
     ELSE [generations EXCEPT ![n] = [@ EXCEPT !.has_create_revision = TRUE,
                                               !.create_revision = op_revision,
                                               !.verison = 1,
                                               !.revisions = Append(@, op_revision)]]

\* PutGenerations appending a new generation after the empty generation of a
\* delete instead of filling that generation
PutGenerationsAppend(generations, op_revision) ==
  LET n == Len(generations)
  IN IF n = 0 THEN <<NewGeneration(op_revision)>>
     ELSE IF generations[n].has_create_revision
     THEN [generations EXCEPT ![n] = [@ EXCEPT !.revisions = Append(@, op_revision),
                                               !.verison = @ + 1]]
     ELSE Append(generations, NewGeneration(op_revision))

\* the generations KvPutApply leaves for a key that has a KvIndex
PutGenerations(generations, op_revision) ==
  LET n == Len(generations)
  IN IF n = 0 THEN <<NewGeneration(op_revision)>>
     ELSE IF generations[n].has_create_revision
     THEN [generations EXCEPT ![n] = [@ EXCEPT !.revisions = Append(@, op_revision),
                                               !.verison = @ + 1]]
     ELSE [generations EXCEPT ![n] = [@ EXCEPT !.has_create_revision = TRUE,
                                               !.create_revision = op_revision,
                                               !.verison = 1,
                                               !.revisions = Append(@, op_revision)]]

\* an apply that never looks for a watch to trigger
WatchMapIgnored(wm) == FALSE

\* "trigger watch": the apply calls TriggerOneWatch when a watch is pending
WatchMapNotEmpty(wm) == wm # {}

\* KvPutApply without the check of the lease
LeaseNotChecked(lm, lease) == TRUE

\* a check of the lease against the keys bound to it on this replica
LeaseHasKeys(lm, lease) == lease \in DOMAIN lm /\ lm[lease] # {}

\* the lease KvPutApply requires to exist
LeaseExists(lm, lease) == lease \in DOMAIN lm

\* KvPutApply: [status, im, rm, wm, event]
KvPutApply(im, rm, lm, wm, key, op_revision, ignore_lease, lease_id, ignore_value, value) ==
  LET found == HasKvIndex(im, key)
      last_mod_revision == IF found THEN im[key].mod_revision ELSE NoRev
      old_generations == IF found THEN im[key].generations ELSE <<>>
      was_open == found /\ Len(old_generations) > 0
                  /\ old_generations[Len(old_generations)].has_create_revision
      generations == PutGenerations(old_generations, op_revision)
      latest_generation == generations[Len(generations)]
      kv_index == [id |-> key, mod_revision |-> op_revision, generations |-> generations]
      new_create_revision == IF found /\ Len(old_generations) > 0
                             THEN latest_generation.create_revision ELSE op_revision
      new_version == IF found /\ Len(old_generations) > 0 THEN latest_generation.verison ELSE 1
      kv_rev_last == GetRawKvRev(rm, last_mod_revision)
      kv_rev == [id |-> key,
                 value |-> IF ~ignore_value THEN value ELSE kv_rev_last.value,
                 create_revision |-> new_create_revision,
                 mod_revision |-> op_revision,
                 version |-> new_version,
                 lease |-> IF ignore_lease THEN kv_rev_last.lease ELSE lease_id,
                 is_deleted |-> FALSE]
      prev_kv0 == IF was_open
                  THEN [NoKv EXCEPT !.create_revision = latest_generation.create_revision.main,
                                    !.mod_revision = last_mod_revision.main,
                                    !.version = latest_generation.verison]
                  ELSE NoKv
      prev_kv == IF prev_kv0.create_revision > 0
                 THEN [prev_kv0 EXCEPT !.lease = kv_rev_last.lease, !.key = key,
                                       !.value = kv_rev_last.value]
                 ELSE prev_kv0
      new_kv == [key |-> key, value |-> kv_rev.value,
                 create_revision |-> new_create_revision.main,
                 mod_revision |-> op_revision.main, version |-> new_version,
                 lease |-> kv_rev.lease]
      fired == IF WatchMapNotEmpty(wm) THEN TriggerOneWatch(wm, key, "PUT", new_kv, prev_kv)
               ELSE [wm |-> wm, event |-> NoEvent]
  IN IF kv_rev.lease > 0 /\ ~LeaseExists(lm, kv_rev.lease)
     THEN [status |-> ELeaseNotExists, im |-> im, rm |-> rm, wm |-> wm, event |-> NoEvent]
     ELSE [status |-> OK,
           im |-> PutRawKvIndex(im, key, kv_index),
           rm |-> PutRawKvRev(rm, op_revision, kv_rev),
           wm |-> fired.wm, event |-> fired.event]

\* ----------------------------------------------------------- KvDeleteApply
\* DeleteGenerations without the tombstone generation
DeleteGenerationsNoTombstone(generations, op_revision) ==
  LET n == Len(generations)
  IN IF n > 0 /\ generations[n].has_create_revision
     THEN [generations EXCEPT ![n] = [@ EXCEPT !.revisions = Append(@, op_revision),
                                               !.verison = @ + 1]]
     ELSE generations

\* the generations KvDeleteApply leaves for a key that has a KvIndex
DeleteGenerations(generations, op_revision) ==
  LET n == Len(generations)
  IN IF n = 0 THEN <<NullGeneration>>
     ELSE IF generations[n].has_create_revision
     THEN Append([generations EXCEPT ![n] = [@ EXCEPT !.revisions = Append(@, op_revision),
                                                      !.verison = @ + 1]],
                 NullGeneration)
     ELSE generations

\* KvDeleteApply: [status, im, rm, wm, event]
KvDeleteApply(im, rm, wm, key, op_revision) ==
  IF ~HasKvIndex(im, key)
  THEN [status |-> OK, im |-> im, rm |-> rm, wm |-> wm, event |-> NoEvent]
  ELSE
    LET last_mod_revision == im[key].mod_revision
        old_generations == im[key].generations
        n == Len(old_generations)
        was_open == n > 0 /\ old_generations[n].has_create_revision
        generations == DeleteGenerations(old_generations, op_revision)
        \* the generation the code's latest_generation pointer names: element n
        latest_generation == generations[n]
        kv_index == [id |-> key, mod_revision |-> op_revision, generations |-> generations]
        new_create_revision == IF n > 0 THEN latest_generation.create_revision ELSE op_revision
        new_version == IF n > 0 THEN latest_generation.verison ELSE 1
        kv_rev_last == GetRawKvRev(rm, last_mod_revision)
        kv_rev == [id |-> key, value |-> EmptyStr,
                   create_revision |-> new_create_revision,
                   mod_revision |-> op_revision,
                   version |-> new_version, lease |-> 0, is_deleted |-> TRUE]
        prev_kv0 == IF was_open
                    THEN [NoKv EXCEPT !.create_revision = latest_generation.create_revision.main,
                                      !.mod_revision = last_mod_revision.main,
                                      !.version = latest_generation.verison]
                    ELSE NoKv
        prev_kv == IF prev_kv0.create_revision > 0
                   THEN [prev_kv0 EXCEPT !.lease = kv_rev_last.lease, !.key = key,
                                         !.value = kv_rev_last.value]
                   ELSE prev_kv0
        new_kv == [key |-> key, value |-> kv_rev.value,
                   create_revision |-> new_create_revision.main,
                   mod_revision |-> op_revision.main, version |-> new_version,
                   lease |-> kv_rev.lease]
        fired == IF WatchMapNotEmpty(wm) THEN TriggerOneWatch(wm, key, "DELETE", new_kv, prev_kv)
                 ELSE [wm |-> wm, event |-> NoEvent]
    IN [status |-> OK,
        im |-> PutRawKvIndex(im, key, kv_index),
        rm |-> PutRawKvRev(rm, op_revision, kv_rev),
        wm |-> fired.wm, event |-> fired.event]


\* ---------------------------------------------------------- KvCompactApply
\* the revisions of a generation that compaction deletes / keeps
Compacted(revisions, compact_revision) ==
  LET Old(r) == r.main < compact_revision.main IN SelectSeq(revisions, Old)

Retained(revisions, compact_revision) ==
  LET Kept(r) == ~(r.main < compact_revision.main) IN SelectSeq(revisions, Kept)

RECURSIVE CompactHistory(_, _, _, _, _)
\* the loop over the history generations 1 .. n-1: [generations, revisions_to_delete]
CompactHistory(generations, i, compact_revision, new_generations, revisions_to_delete) ==
  IF i > Len(generations) - 1
  THEN [generations |-> new_generations, revisions_to_delete |-> revisions_to_delete]
  ELSE LET old_generation == generations[i]
       IN IF Len(new_generations) > 0
          THEN CompactHistory(generations, i + 1, compact_revision,
                              Append(new_generations, old_generation), revisions_to_delete)
          ELSE IF ~old_generation.has_create_revision
          THEN CompactHistory(generations, i + 1, compact_revision, new_generations,
                              revisions_to_delete)
          ELSE LET kept == Retained(old_generation.revisions, compact_revision)
                   gone == Compacted(old_generation.revisions, compact_revision)
               IN CompactHistory(generations, i + 1, compact_revision,
                                 IF Len(kept) > 0
                                 THEN Append(new_generations,
                                             [old_generation EXCEPT !.revisions = kept])
                                 ELSE new_generations,
                                 revisions_to_delete \o gone)

\* CompactLatest filtering the final revision like the others
CompactLatestAll(latest_generation, compact_revision) ==
  [revisions |-> Retained(latest_generation.revisions, compact_revision),
   revisions_to_delete |-> Compacted(latest_generation.revisions, compact_revision)]

\* CompactLatest without the "else" after the copy of the final revision: the
\* final revision is copied and then filtered like the others
CompactLatestNoElse(latest_generation, compact_revision) ==
  LET n == Len(latest_generation.revisions)
      head == SubSeq(latest_generation.revisions, 1, n - 1)
      final == SubSeq(latest_generation.revisions, n, n)
  IN [revisions |-> Retained(head, compact_revision) \o final \o Retained(final, compact_revision),
      revisions_to_delete |-> Compacted(head, compact_revision) \o Compacted(final, compact_revision)]

\* the latest (put) generation when no earlier generation survives: the final
\* revision is copied, the others are filtered
CompactLatest(latest_generation, compact_revision) ==
  LET n == Len(latest_generation.revisions)
      head == SubSeq(latest_generation.revisions, 1, n - 1)
      final == SubSeq(latest_generation.revisions, n, n)
  IN [revisions |-> Retained(head, compact_revision) \o final,
      revisions_to_delete |-> Compacted(head, compact_revision)]

RECURSIVE DeleteRevs(_, _, _)
DeleteRevs(rm, revisions_to_delete, i) ==
  IF i > Len(revisions_to_delete) THEN rm
  ELSE DeleteRevs(DeleteRawKvRev(rm, revisions_to_delete[i]), revisions_to_delete, i + 1)

\* KvCompactApply: [status, im, rm]
KvCompactApply(im, rm, key, compact_revision) ==
  IF ~HasKvIndex(im, key) THEN [status |-> EIndexNotFound, im |-> im, rm |-> rm]
  ELSE IF Len(im[key].generations) = 0 THEN [status |-> OK, im |-> im, rm |-> rm]
  ELSE
    LET kv_index == im[key]
        n == Len(kv_index.generations)
        history == CompactHistory(kv_index.generations, 1, compact_revision, <<>>, <<>>)
        latest_generation == kv_index.generations[n]
        latest == CompactLatest(latest_generation, compact_revision)
        new_generations ==
          IF ~latest_generation.has_create_revision
          THEN IF Len(history.generations) > 0
               THEN Append(history.generations, latest_generation)
               ELSE history.generations
          ELSE IF Len(history.generations) > 0
               THEN Append(history.generations, latest_generation)
               ELSE IF Len(latest.revisions) > 0
                    THEN <<[latest_generation EXCEPT !.revisions = latest.revisions]>>
                    ELSE <<>>
        revisions_to_delete ==
          IF latest_generation.has_create_revision /\ Len(history.generations) = 0
          THEN history.revisions_to_delete \o latest.revisions_to_delete
          ELSE history.revisions_to_delete
        new_kv_index == [kv_index EXCEPT !.generations = new_generations]
    IN [status |-> OK,
        im |-> IF Len(new_generations) = 0 THEN DeleteRawKvIndex(im, key)
               ELSE PutRawKvIndex(im, key, new_kv_index),
        rm |-> DeleteRevs(rm, revisions_to_delete, 1)]

\* ---------------------------------------------------------- the meta-writer
RECURSIVE EraseEach(_, _, _)
\* the revision maps after each of the DeleteRawKvRev calls of a compaction
EraseEach(rm, keys, i) ==
  IF i > Len(keys) THEN <<>>
  ELSE <<MapErase(rm, keys[i])>> \o EraseEach(MapErase(rm, keys[i]), keys, i + 1)

\* what the meta-writer holds after each of its calls in the apply of a
\* sub-command: PutRawKvIndex / DeleteRawKvIndex first, then PutRawKvRev, or
\* one DeleteRawKvRev per compacted revision in ascending order; each call
\* writes one tuple
MetaWriterStates(im, rm, lm, wm, c) ==
  IF c.event_type = "PUT"
  THEN Only({IF r.status # OK THEN <<>>
             ELSE <<[im |-> r.im, rm |-> rm], [im |-> r.im, rm |-> r.rm]>> :
             r \in {KvPutApply(im, rm, lm, wm, c.id, c.op_revision, c.ignore_lease, c.lease_id,
                               c.ignore_value, c.value)}})
  ELSE IF c.event_type = "DELETE"
  THEN Only({IF ~HasKvIndex(im, c.id) THEN <<>>
             ELSE <<[im |-> r.im, rm |-> rm], [im |-> r.im, rm |-> r.rm]>> :
             r \in {KvDeleteApply(im, rm, wm, c.id, c.op_revision)}})
  ELSE IF c.event_type = "COMPACTION"
  THEN Only({IF r.status # OK \/ Len(im[c.id].generations) = 0 THEN <<>>
             ELSE <<[im |-> r.im, rm |-> rm]>>
                  \o [i \in 1..Cardinality(DOMAIN rm \ DOMAIN r.rm) |->
                        [im |-> r.im,
                         rm |-> EraseEach(rm, SortedSeq(DOMAIN rm \ DOMAIN r.rm), 1)[i]]] :
             r \in {KvCompactApply(im, rm, c.id, c.op_revision)}})
  ELSE <<>>


VARIABLES
  kv_index_map,    \* key -> KvIndexInternal
  kv_rev_map,      \* RevisionToString(revision) -> KvRevInternal
  kv_lease_map,    \* lease id -> set of keys bound to the lease
  next_revision,   \* the revision clock (ID_NEXT_REVISION)
  txn,             \* the MetaIncrement a request is filling
  log,             \* sub-commands proposed and not yet applied
  one_time_watch_map, \* keys with a pending one-shot watch
  last             \* what the last handler or apply step returned

vars == <<kv_index_map, kv_rev_map, kv_lease_map, next_revision, txn, log,
          one_time_watch_map, last>>

\* ------------------------------------------------------------------- state
NoTxn == [active |-> FALSE, main |-> 0, sub |-> 0, cmds |-> <<>>]

\* what the last step returned: the handler, its status, the key it was given,
\* the deleted_count of KvDeleteRange, and for an apply step the sub-command,
\* the watch event it fired and whether it changed a map
NoLast == [op |-> "Init", status |-> OK, key |-> EmptyStr, deleted_count |-> 0,
           cmd |-> LeaseRevokeCmd(0), event |-> NoEvent, changed |-> FALSE]

\* the first sub revision of a MetaIncrement
FirstSub == 0

Init ==
  /\ kv_index_map = <<>>
  /\ kv_rev_map = <<>>
  /\ kv_lease_map = <<>>
  /\ next_revision = 1
  /\ txn = NoTxn
  /\ log = <<>>
  /\ one_time_watch_map = {}
  /\ last = NoLast

\* inputs of the requests
PutLeases == {0} \cup LeaseIds
PutInput(key, value, lease_id, ignore_value, ignore_lease) ==
  [key |-> key, value |-> value, lease_id |-> lease_id, ignore_value |-> ignore_value,
   ignore_lease |-> ignore_lease]
\* the puts a client issues: every combination of a valid key, a value (empty
\* when the value is ignored), a lease and the flags, and one put for each
\* malformed key or value
PutInputs ==
  {PutInput(k, v, l, FALSE, il) : k \in Keys, v \in Values \cup {EmptyStr}, l \in PutLeases,
                                 il \in BOOLEAN}
  \cup {PutInput(k, EmptyStr, l, TRUE, il) : k \in Keys, l \in PutLeases, il \in BOOLEAN}
  \cup {PutInput(EmptyStr, ValX, 0, FALSE, FALSE), PutInput(KeyTooLong, ValX, 0, FALSE, FALSE),
        PutInput(KeyA, ValTooLong, 0, FALSE, FALSE)}
RangeEnds == {EmptyStr, ZeroByte, KeyMax}
CallerCounts == {0, 5}

\* GetNextId(ID_NEXT_REVISION): a request reserves its main revision
BeginTxn ==
  /\ ~txn.active
  /\ txn' = [active |-> TRUE, main |-> next_revision, sub |-> FirstSub, cmds |-> <<>>]
  /\ next_revision' = next_revision + 1
  /\ last' = [NoLast EXCEPT !.op = "BeginTxn"]
  /\ UNCHANGED <<kv_index_map, kv_rev_map, kv_lease_map, log, one_time_watch_map>>

\* a KvPut call of the request in progress; an error ends the request
KvPutReq(key, value, lease_id, need_prev_kv, ignore_value, ignore_lease) ==
  /\ txn.active
  /\ \E r \in {KvPut(kv_index_map, kv_rev_map, kv_lease_map, key, value, lease_id, need_prev_kv,
                      ignore_value, ignore_lease, txn.main, txn.sub)} :
        /\ Len(log) + Len(txn.cmds) + Len(r.cmds) <= MaxPending
        /\ kv_lease_map' = r.lm
        /\ txn' = IF r.status = OK
                  THEN [txn EXCEPT !.sub = r.sub_revision, !.cmds = @ \o r.cmds]
                  ELSE NoTxn
        /\ last' = [NoLast EXCEPT !.op = "KvPut", !.status = r.status, !.key = key]
  /\ UNCHANGED <<kv_index_map, kv_rev_map, next_revision, log, one_time_watch_map>>

\* a KvDeleteRange call of the request in progress
KvDeleteRangeReq(key, range_end, need_prev_kv, need_lease_remove_keys, deleted_count_in) ==
  /\ txn.active
  /\ \E r \in {KvDeleteRange(kv_index_map, kv_rev_map, kv_lease_map, key, range_end, need_prev_kv,
                              txn.main, txn.sub, need_lease_remove_keys, deleted_count_in)} :
        /\ Len(log) + Len(txn.cmds) + Len(r.cmds) <= MaxPending
        /\ kv_lease_map' = r.lm
        /\ txn' = IF r.status = OK
                  THEN [txn EXCEPT !.sub = r.sub_revision, !.cmds = @ \o r.cmds]
                  ELSE NoTxn
        /\ last' = [NoLast EXCEPT !.op = "KvDeleteRange", !.status = r.status, !.key = key,
                                  !.deleted_count = r.deleted_count]
  /\ UNCHANGED <<kv_index_map, kv_rev_map, next_revision, log, one_time_watch_map>>

\* SubmitMetaIncrement: the request proposes what it has built
Submit ==
  /\ txn.active
  /\ log' = log \o txn.cmds
  /\ txn' = NoTxn
  /\ last' = [NoLast EXCEPT !.op = "Submit"]
  /\ UNCHANGED <<kv_index_map, kv_rev_map, kv_lease_map, next_revision, one_time_watch_map>>

\* KvCompact: one COMPACTION sub-command per key, proposed at once
KvCompact(keys, compact_revision) ==
  [i \in 1..Len(keys) |-> CompactCmd(keys[i], compact_revision)]

\* a COMPACTION sub-command is waiting in the log
CompactionPending == \E i \in 1..Len(log) : log[i].event_type = "COMPACTION"

\* the compaction task calls KvCompact, which returns when its MetaIncrement
\* has been applied (SubmitMetaIncrementSync): one compaction at a time
KvCompactReq(keys, compact_revision) ==
  /\ Len(keys) > 0
  /\ ~CompactionPending
  /\ Len(log) + Len(txn.cmds) + Len(keys) <= MaxPending
  /\ log' = log \o KvCompact(keys, compact_revision)
  /\ last' = [NoLast EXCEPT !.op = "KvCompact"]
  /\ UNCHANGED <<kv_index_map, kv_rev_map, kv_lease_map, next_revision, txn, one_time_watch_map>>

\* LeaseGrant
LeaseGrant(lease_id) ==
  /\ lease_id \notin DOMAIN kv_lease_map
  /\ kv_lease_map' = MapPut(kv_lease_map, lease_id, {})
  /\ last' = [NoLast EXCEPT !.op = "LeaseGrant"]
  /\ UNCHANGED <<kv_index_map, kv_rev_map, next_revision, txn, log, one_time_watch_map>>

RECURSIVE RevokeDeletes(_, _, _, _, _, _)
\* LeaseRevoke's loop: KvDeleteRange(key, "", ...) for every key bound to the lease
RevokeDeletes(im, rm, lm, keys, main_revision, sub_revision) ==
  IF keys = <<>> THEN <<>>
  ELSE Only({r.cmds \o RevokeDeletes(im, rm, lm, Tail(keys), main_revision, r.sub_revision) :
             r \in {KvDeleteRange(im, rm, lm, Head(keys), EmptyStr, FALSE, main_revision,
                                  sub_revision, FALSE, 0)}})

\* LeaseRevoke, and the expiry of a lease: delete the bound keys at a fresh
\* revision and remove the lease, in one MetaIncrement
LeaseRevoke(lease_id) ==
  /\ lease_id \in DOMAIN kv_lease_map
  /\ ~txn.active
  /\ \E cmds \in {RevokeDeletes(kv_index_map, kv_rev_map, kv_lease_map,
                                 SortedSeq(kv_lease_map[lease_id]), next_revision, FirstSub)} :
       /\ Len(log) + Len(cmds) + 1 <= MaxPending
       /\ log' = log \o cmds \o <<LeaseRevokeCmd(lease_id)>>
  /\ next_revision' = next_revision + 1
  /\ last' = [NoLast EXCEPT !.op = "LeaseRevoke"]
  /\ UNCHANGED <<kv_index_map, kv_rev_map, kv_lease_map, txn, one_time_watch_map>>

\* a one-shot watch is registered / cancelled
WatchReq(key) ==
  /\ key \notin one_time_watch_map
  /\ one_time_watch_map' = one_time_watch_map \cup {key}
  /\ last' = [NoLast EXCEPT !.op = "Watch"]
  /\ UNCHANGED <<kv_index_map, kv_rev_map, kv_lease_map, next_revision, txn, log>>

WatchCancel(key) ==
  /\ key \in one_time_watch_map
  /\ one_time_watch_map' = one_time_watch_map \ {key}
  /\ last' = [NoLast EXCEPT !.op = "WatchCancel"]
  /\ UNCHANGED <<kv_index_map, kv_rev_map, kv_lease_map, next_revision, txn, log>>

\* the state machine applies one sub-command
ApplyCmd(im, rm, lm, wm, c) ==
  IF c.event_type = "PUT"
  THEN LET r == KvPutApply(im, rm, lm, wm, c.id, c.op_revision, c.ignore_lease, c.lease_id,
                           c.ignore_value, c.value)
       IN [status |-> r.status, im |-> r.im, rm |-> r.rm, lm |-> lm, wm |-> r.wm, event |-> r.event]
  ELSE IF c.event_type = "DELETE"
  THEN LET r == KvDeleteApply(im, rm, wm, c.id, c.op_revision)
       IN [status |-> r.status, im |-> r.im, rm |-> r.rm, lm |-> lm, wm |-> r.wm, event |-> r.event]
  ELSE IF c.event_type = "COMPACTION"
  THEN LET r == KvCompactApply(im, rm, c.id, c.op_revision)
       IN [status |-> r.status, im |-> r.im, rm |-> r.rm, lm |-> lm, wm |-> wm, event |-> NoEvent]
  ELSE [status |-> OK, im |-> im, rm |-> rm, lm |-> MapErase(lm, c.lease_id), wm |-> wm,
        event |-> NoEvent]

Apply ==
  /\ log # <<>>
  /\ \E r \in {ApplyCmd(kv_index_map, kv_rev_map, kv_lease_map, one_time_watch_map, Head(log))} :
        /\ kv_index_map' = r.im
        /\ kv_rev_map' = r.rm
        /\ kv_lease_map' = r.lm
        /\ one_time_watch_map' = r.wm
        /\ last' = [NoLast EXCEPT !.op = "Apply", !.status = r.status, !.cmd = Head(log),
                                  !.event = r.event,
                                  !.changed = (r.im # kv_index_map \/ r.rm # kv_rev_map)]
  /\ log' = Tail(log)
  /\ UNCHANGED <<next_revision, txn>>

\* the compact revisions asked for: up to one above every revision in use
CompactRevs == {Rev(m, 0) : m \in 1..(MaxRevCompact + 1)}
KeySeqs == {<<k>> : k \in Keys} \cup {<<KeyA, KeyMax>>}

\* the KvPut service: reserve a main revision, run KvPut, propose on success
KvPutRpc(key, value, lease_id, need_prev_kv, ignore_value, ignore_lease) ==
  /\ ~txn.active
  /\ \E r \in {KvPut(kv_index_map, kv_rev_map, kv_lease_map, key, value, lease_id, need_prev_kv,
                      ignore_value, ignore_lease, next_revision, FirstSub)} :
        /\ Len(log) + Len(r.cmds) <= MaxPending
        /\ kv_lease_map' = r.lm
        /\ log' = IF r.status = OK THEN log \o r.cmds ELSE log
        /\ last' = [NoLast EXCEPT !.op = "KvPut", !.status = r.status, !.key = key]
  /\ next_revision' = next_revision + 1
  /\ UNCHANGED <<kv_index_map, kv_rev_map, txn, one_time_watch_map>>

\* the KvDeleteRange service
KvDeleteRangeRpc(key, range_end, need_prev_kv, need_lease_remove_keys, deleted_count_in) ==
  /\ ~txn.active
  /\ \E r \in {KvDeleteRange(kv_index_map, kv_rev_map, kv_lease_map, key, range_end, need_prev_kv,
                              next_revision, FirstSub, need_lease_remove_keys, deleted_count_in)} :
        /\ Len(log) + Len(r.cmds) <= MaxPending
        /\ kv_lease_map' = r.lm
        /\ log' = IF r.status = OK THEN log \o r.cmds ELSE log
        /\ last' = [NoLast EXCEPT !.op = "KvDeleteRange", !.status = r.status, !.key = key,
                                  !.deleted_count = r.deleted_count]
  /\ next_revision' = next_revision + 1
  /\ UNCHANGED <<kv_index_map, kv_rev_map, txn, one_time_watch_map>>

\* the requests of clients: puts and range deletes, and the apply step
PutStep == \E in \in PutInputs :
             KvPutRpc(in.key, in.value, in.lease_id, TRUE, in.ignore_value, in.ignore_lease)

DeleteStep == \E key \in Keys, range_end \in RangeEnds, need_lease_remove_keys \in BOOLEAN,
                 deleted_count_in \in CallerCounts :
                KvDeleteRangeRpc(key, range_end, TRUE, need_lease_remove_keys, deleted_count_in)

Next ==
  \/ next_revision <= MaxRev /\ PutStep
  \/ next_revision <= MaxRev /\ DeleteStep
  \/ Apply

Spec == Init /\ [][Next]_vars

\* puts and deletes with leases granted and revoked
NextLease ==
  \/ next_revision <= MaxRevLease /\ PutStep
  \/ next_revision <= MaxRevLease /\ DeleteStep
  \/ \E lease_id \in LeaseIds : LeaseGrant(lease_id)
  \/ next_revision <= MaxRevLease /\ \E lease_id \in LeaseIds : LeaseRevoke(lease_id)
  \/ Apply

SpecLease == Init /\ [][NextLease]_vars

\* puts and deletes with leases and one-shot watches
NextWatch ==
  \/ next_revision <= MaxRevWatch /\ PutStep
  \/ next_revision <= MaxRevWatch /\ DeleteStep
  \/ \E lease_id \in LeaseIds : LeaseGrant(lease_id)
  \/ next_revision <= MaxRevWatch /\ \E lease_id \in LeaseIds : LeaseRevoke(lease_id)
  \/ \E key \in Keys : WatchReq(key)
  \/ \E key \in Keys : WatchCancel(key)
  \/ Apply

SpecWatch == Init /\ [][NextWatch]_vars

\* puts and deletes with compaction
NextCompact ==
  \/ next_revision <= MaxRevCompact /\ PutStep
  \/ next_revision <= MaxRevCompact /\ DeleteStep
  \/ \E keys \in KeySeqs, compact_revision \in CompactRevs : KvCompactReq(keys, compact_revision)
  \/ Apply

SpecCompact == Init /\ [][NextCompact]_vars

\* requests that fill one MetaIncrement with several handler calls
NextTxn ==
  \/ next_revision <= MaxRevTxn /\ BeginTxn
  \/ \E key \in TxnKeys : KvPutReq(key, ValX, 0, TRUE, FALSE, FALSE)
  \/ \E range_end \in {EmptyStr, ZeroByte} :
       KvDeleteRangeReq(KeyA, range_end, TRUE, FALSE, 0)
  \/ Submit
  \/ Apply

SpecTxn == Init /\ [][NextTxn]_vars

\* the revision map written and erased directly, at revisions whose encodings
\* differ in every byte position the model can reach
RevMains == {0, 1, 255, 256, 65536, 2147483647}
RevSubs == {0, 1, 255, 256}
Revisions == {Rev(m, s) : m \in RevMains, s \in RevSubs}

\* the KvRev stored at a revision
KvRevAt(revision) == [NoKvRev EXCEPT !.id = KeyA, !.value = ValX, !.mod_revision = revision]

PutRawKvRevStep(revision) ==
  /\ Cardinality(DOMAIN kv_rev_map \cup {RevisionToString(revision)}) <= MaxStored
  /\ kv_rev_map' = PutRawKvRev(kv_rev_map, revision, KvRevAt(revision))
  /\ last' = [NoLast EXCEPT !.op = "PutRawKvRev"]
  /\ UNCHANGED <<kv_index_map, kv_lease_map, next_revision, txn, log, one_time_watch_map>>

DeleteRawKvRevStep(revision) ==
  /\ HasKvRev(kv_rev_map, revision)
  /\ kv_rev_map' = DeleteRawKvRev(kv_rev_map, revision)
  /\ last' = [NoLast EXCEPT !.op = "DeleteRawKvRev"]
  /\ UNCHANGED <<kv_index_map, kv_lease_map, next_revision, txn, log, one_time_watch_map>>

NextRevision ==
  \/ \E revision \in Revisions : PutRawKvRevStep(revision)
  \/ \E revision \in Revisions : DeleteRawKvRevStep(revision)

SpecRevision == Init /\ [][NextRevision]_vars

\* ------------------------------------------------------- CompactionTask
\* the size of a batch of keys handed to KvCompact (50 in the source), scaled
\* down
CompactionBatchSize == 2
\* FLAGS_compaction_retention_rev_count (1000 in the source), scaled down
CompactionRetentionRevCount == 1
\* largest main revision of the puts that precede the compaction task
MaxRevTask == 3
\* the keys of a store with more keys than one batch holds
TaskKeys == {KeyA, KeyB, KeyMax}

RECURSIVE CompactionTaskLoop(_, _, _, _)
\* "do compaction for each key": the batches of keys KvCompact is called with
CompactionTaskLoop(keys, i, keys_to_compact, batches) ==
  IF i > Len(keys)
  THEN IF keys_to_compact # <<>> THEN Append(batches, keys_to_compact) ELSE batches
  ELSE IF Len(keys_to_compact) < CompactionBatchSize
  THEN CompactionTaskLoop(keys, i + 1, Append(keys_to_compact, keys[i]), batches)
  ELSE CompactionTaskLoop(keys, i + 1, <<>>, Append(batches, keys_to_compact))

\* the batches of one run over the keys of the key-index map (GetAllKeys)
CompactionTaskBatches(im) == CompactionTaskLoop(SortedSeq(DOMAIN im), 1, <<>>, <<>>)

RECURSIVE CompactBatches(_, _, _)
\* the COMPACTION sub-commands of the KvCompact calls, batch after batch
CompactBatches(batches, i, compact_revision) ==
  IF i > Len(batches) THEN <<>>
  ELSE KvCompact(batches[i], compact_revision) \o CompactBatches(batches, i + 1, compact_revision)

\* CompactionTask with auto_compaction on: skipped while the revision clock is
\* below the retention count, else every batch is compacted at
\* (now_revision - retention count, 0)
CompactionTask ==
  /\ ~CompactionPending
  /\ \E cmds \in {IF next_revision < CompactionRetentionRevCount THEN <<>>
                   ELSE CompactBatches(CompactionTaskBatches(kv_index_map), 1,
                                       Rev(next_revision - CompactionRetentionRevCount, 0))} :
       /\ Len(log) + Len(cmds) <= MaxPending
       /\ log' = log \o cmds
  /\ last' = [NoLast EXCEPT !.op = "CompactionTask"]
  /\ UNCHANGED <<kv_index_map, kv_rev_map, kv_lease_map, next_revision, txn, one_time_watch_map>>

\* puts of up to three keys and the compaction task
NextTask ==
  \/ next_revision <= MaxRevTask /\ \E key \in TaskKeys, value \in Values :
                                      KvPutRpc(key, value, 0, TRUE, FALSE, FALSE)
  \/ CompactionTask
  \/ Apply

SpecTask == Init /\ [][NextTask]_vars


\* ---------------------------------------------------------------- properties
\* what a point KvRange(key, "") returns
PointGet(im, rm, key) == KvRange(im, rm, key, EmptyStr, 0, FALSE, FALSE, 0).kv

\* the step applies the sub-command at the head of the log
ApplyStep == log # <<>> /\ log' = Tail(log)

\* the revisions of the sub-commands of a sequence that carry one
CmdRevisions(cmds) ==
  LET Mutation(c) == c.event_type \in {"PUT", "DELETE"}
      muts == SelectSeq(cmds, Mutation)
  IN [i \in 1..Len(muts) |-> muts[i].op_revision]

\* a sequence of revisions is strictly increasing in (main, sub)
StrictlyIncreasing(revisions) ==
  \A i \in 1..Len(revisions) : \A j \in 1..Len(revisions) :
    i < j => RevLess(revisions[i], revisions[j])

\* the revisions under which kv_rev_map holds a KvRev
StoredRevisions(rm) == {StringToRevision(s) : s \in DOMAIN rm}

\* an accepted KvPut(k, v, 0) proposes one PUT of k
\* with the value v and no lease at the revision it was given
PutProposesValue ==
  \A k \in Keys, v \in Values :
    LET r == KvPut(kv_index_map, kv_rev_map, kv_lease_map, k, v, 0, TRUE, FALSE, FALSE,
                   next_revision, FirstSub)
    IN r.status = OK =>
         r.cmds = <<PutCmd(k, Rev(next_revision, FirstSub), FALSE, 0, FALSE, v)>>

\* C1: a KvPut(k, v, lease 0) with a non-empty v, once applied, is what a point
\* KvRange(k, "") returns: exactly one kv with key k, value v, mod_revision the
\* put's main revision, version one more than the live version the key had (1
\* when it was absent or deleted) and the create_revision of the lifetime
C1_PutThenRangeRoundTrip ==
  /\ []PutProposesValue
  /\ [][(/\ ApplyStep
         /\ Head(log).event_type = "PUT"
         /\ Head(log).lease_id = 0
         /\ ~Head(log).ignore_lease
         /\ Head(log).value # EmptyStr)
        => LET c == Head(log)
               prev == PointGet(kv_index_map, kv_rev_map, c.id)
               post == PointGet(kv_index_map', kv_rev_map', c.id)
           IN /\ Len(post) = 1
              /\ post[1].key = c.id
              /\ post[1].value = c.value
              /\ post[1].lease = 0
              /\ post[1].mod_revision = c.op_revision.main
              /\ IF prev = <<>>
                 THEN post[1].version = 1 /\ post[1].create_revision = c.op_revision.main
                 ELSE /\ post[1].version = prev[1].version + 1
                      /\ post[1].create_revision = prev[1].create_revision]_vars

\* C1 witness: a put with lease 0 has been applied to a key that had been put
\* and deleted before, and starts the key's second lifetime at version 1
C1_Witness ==
  /\ last.op = "Apply" /\ last.cmd.event_type = "PUT" /\ last.status = OK
  /\ last.cmd.lease_id = 0 /\ ~last.cmd.ignore_lease /\ last.cmd.value # EmptyStr
  /\ HasKvIndex(kv_index_map, last.cmd.id)
  /\ Len(kv_index_map[last.cmd.id].generations) = 2
  /\ PointGet(kv_index_map, kv_rev_map, last.cmd.id) # <<>>
  /\ PointGet(kv_index_map, kv_rev_map, last.cmd.id)[1].version = 1


\* the sub-commands proposed or being built are in strictly increasing revision
\* order, after every revision already stored
PendingOrdered ==
  LET pending == CmdRevisions(log \o txn.cmds)
  IN /\ StrictlyIncreasing(pending)
     /\ \A r \in StoredRevisions(kv_rev_map) : \A i \in 1..Len(pending) : RevLess(r, pending[i])

\* the step is a handler call that adds sub-commands to the MetaIncrement
HandlerStep(op) == txn.active /\ txn'.active /\ last'.op = op

\* the revisions of the sub-commands the step adds to the MetaIncrement
AddedRevisions == CmdRevisions(SubSeq(txn'.cmds, Len(txn.cmds) + 1, Len(txn'.cmds)))

RangeKeys == Keys \cup {ZeroByte}

\* the result of KvRange for every (key, range_end), without limit
AllRanges(im, rm) ==
  [key \in RangeKeys, range_end \in RangeEnds |->
     KvRange(im, rm, key, range_end, 0, FALSE, FALSE, 0)]

\* C3: applying a COMPACTION sub-command, for any key and any compact revision
\* (also one above every existing revision), changes the result of no KvRange
C3_CompactionPreservesRange ==
  [][(ApplyStep /\ Head(log).event_type = "COMPACTION")
     => AllRanges(kv_index_map', kv_rev_map') = AllRanges(kv_index_map, kv_rev_map)]_vars

\* C3 witness: a compaction above every existing revision has been applied to a
\* live key and removed an old revision of it, and the key can still be read
C3_Witness ==
  /\ last.op = "Apply" /\ last.cmd.event_type = "COMPACTION" /\ last.status = OK
  /\ last.changed
  /\ last.cmd.op_revision.main > MaxRevCompact
  /\ PointGet(kv_index_map, kv_rev_map, last.cmd.id) # <<>>
  /\ PointGet(kv_index_map, kv_rev_map, last.cmd.id)[1].version = 2


\* the lease KvPutApply resolves for a PUT sub-command: the lease of the KvRev
\* at the key's mod_revision when ignore_lease is set, else the lease it carries
ResolvedLease(im, rm, c) ==
  IF c.ignore_lease
  THEN GetRawKvRev(rm, IF HasKvIndex(im, c.id) THEN im[c.id].mod_revision ELSE NoRev).lease
  ELSE c.lease_id

\* the revisions a KvIndex refers to
IndexRevisions(kv_index) ==
  {kv_index.mod_revision}
  \cup UNION {{g.create_revision} \cup {g.revisions[i] : i \in 1..Len(g.revisions)} :
              g \in {kv_index.generations[j] : j \in 1..Len(kv_index.generations)}}

\* a revision is used by a KvRev or a KvIndex, or is still to be applied
RevisionInUse(im, rm, pending, revision) ==
  \/ revision \in StoredRevisions(rm)
  \/ \E key \in DOMAIN im : revision \in IndexRevisions(im[key])
  \/ \E i \in 1..Len(pending) : pending[i] = revision

\* C4: applying a PUT whose resolved lease is > 0 and does not exist fails and
\* is a no-op: KvIndex map and KvRev map are unchanged, no watch fires (a
\* pending watch stays pending), and the revision of the PUT is used by no
\* KvRev or KvIndex, is not pending again and is below the revision clock, so
\* that nothing uses it afterwards
C4_PutApplyMissingLeaseIsNoOp ==
  [][(/\ ApplyStep
      /\ Head(log).event_type = "PUT"
      /\ ResolvedLease(kv_index_map, kv_rev_map, Head(log)) > 0
      /\ ResolvedLease(kv_index_map, kv_rev_map, Head(log)) \notin DOMAIN kv_lease_map)
     => /\ last'.status # OK
        /\ UNCHANGED <<kv_index_map, kv_rev_map, one_time_watch_map>>
        /\ last'.event = NoEvent
        /\ ~last'.changed
        /\ ~RevisionInUse(kv_index_map', kv_rev_map', CmdRevisions(log'), Head(log).op_revision)
        /\ Head(log).op_revision.main < next_revision']_vars

\* C4 witness: a PUT bound to a lease that was revoked before it was applied
\* has been rejected by the apply, with a watch pending on its key
C4_Witness ==
  /\ last.op = "Apply" /\ last.cmd.event_type = "PUT" /\ last.status = ELeaseNotExists
  /\ last.cmd.lease_id > 0
  /\ last.cmd.id \in one_time_watch_map


\* C5: a put with ignore_value on a key that has a value keeps the value: the
\* sub-command KvPut builds, once applied, writes a KvRev with the value of the
\* KvRev at the key's previous mod_revision, and KvRange returns that value
C5_IgnoreValueKeepsValue ==
  \A key \in Keys :
    LET prev == PointGet(kv_index_map, kv_rev_map, key)
        r == KvPut(kv_index_map, kv_rev_map, kv_lease_map, key, EmptyStr,
                   IF prev # <<>> THEN prev[1].lease ELSE 0, TRUE, TRUE, FALSE,
                   next_revision, FirstSub)
    IN (log = <<>> /\ prev # <<>> /\ r.status = OK)
       => LET a == ApplyCmd(kv_index_map, kv_rev_map, r.lm, one_time_watch_map, r.cmds[1])
              post == PointGet(a.im, a.rm, key)
          IN /\ a.status = OK
             /\ GetRawKvRev(a.rm, Rev(next_revision, FirstSub)).value = prev[1].value
             /\ Len(post) = 1
             /\ post[1].value = prev[1].value

\* C6: an empty value is rejected unless ignore_value is set, a put with
\* ignore_value is accepted only on a key that has a value, and so no live key
\* has an empty value
C6_NoLiveKeyWithEmptyValue ==
  /\ \A key \in Keys, lease_id \in PutLeases, ignore_lease \in BOOLEAN :
       /\ KvPut(kv_index_map, kv_rev_map, kv_lease_map, key, EmptyStr, lease_id, TRUE, FALSE,
                ignore_lease, next_revision, FirstSub).status # OK
       /\ KvPut(kv_index_map, kv_rev_map, kv_lease_map, key, EmptyStr, lease_id, TRUE, TRUE,
                ignore_lease, next_revision, FirstSub).status = OK
            => PointGet(kv_index_map, kv_rev_map, key) # <<>>
  /\ \A key \in Keys :
       LET kv == PointGet(kv_index_map, kv_rev_map, key)
       IN kv # <<>> => kv[1].value # EmptyStr

\* C8: a put with ignore_lease on a key that has no live kv (never written, or
\* deleted) is rejected, adds no sub-command and leaves sub_revision unchanged
C8_IgnoreLeaseNeedsLiveKey ==
  \A key \in Keys :
    PointGet(kv_index_map, kv_rev_map, key) = <<>>
    => \A value \in Values \cup {EmptyStr}, lease_id \in PutLeases, ignore_value \in BOOLEAN,
          sub \in {FirstSub, FirstSub + 1} :
         LET r == KvPut(kv_index_map, kv_rev_map, kv_lease_map, key, value, lease_id, TRUE,
                        ignore_value, TRUE, next_revision, sub)
         IN /\ r.status # OK
            /\ r.cmds = <<>>
            /\ r.sub_revision = sub
            /\ r.lm = kv_lease_map

\* C8 witness: a put with ignore_lease has just been rejected on a key that was
\* put and then deleted
C8_Witness ==
  /\ last.op = "KvPut" /\ last.status = EIgnoreLeaseNotFound
  /\ HasKvIndex(kv_index_map, last.key)
  /\ ~LatestGenerationOpen(kv_index_map[last.key])
  /\ log = <<>>

\* C10: a KvDeleteRange over a range without a live key returns OK with
\* deleted_count 0 whatever the caller's variable held, adds no DELETE and does
\* not advance sub_revision; a DELETE applied to a key without KvIndex returns
\* OK and changes neither map
C10_DeleteAbsentCountsZero ==
  /\ \A key \in Keys, range_end \in RangeEnds, deleted_count_in \in CallerCounts :
       KvRange(kv_index_map, kv_rev_map, key, range_end, 0, FALSE, FALSE, 0).kv = <<>>
       => LET r == KvDeleteRange(kv_index_map, kv_rev_map, kv_lease_map, key, range_end, TRUE,
                                 next_revision, FirstSub, TRUE, deleted_count_in)
          IN /\ r.status = OK
             /\ r.deleted_count = 0
             /\ r.cmds = <<>>
             /\ r.sub_revision = FirstSub
  /\ \A key \in Keys :
       ~HasKvIndex(kv_index_map, key)
       => LET a == KvDeleteApply(kv_index_map, kv_rev_map, one_time_watch_map, key,
                                 Rev(next_revision, FirstSub))
          IN a.status = OK /\ a.im = kv_index_map /\ a.rm = kv_rev_map


\* the keys some KvRange returns, over every (key, range_end), with and
\* without keys_only
ReturnedKeys(im, rm) ==
  UNION {{r[i].key : i \in 1..Len(r)} :
         r \in {KvRange(im, rm, key, range_end, 0, keys_only, FALSE, 0).kv :
                key \in RangeKeys, range_end \in RangeEnds, keys_only \in BOOLEAN}}

\* the step applies a PUT of the key
PutApplied(key) == ApplyStep /\ Head(log).event_type = "PUT" /\ Head(log).id = key

\* C9: a DELETE applied to a live key appends the delete revision to the open
\* generation, increments its version, makes an empty tombstone generation the
\* last one and writes an is_deleted KvRev at the delete revision; the key is
\* then returned by no KvRange, and stays so until a PUT of it is applied
C9_DeleteTombstonesLiveKey ==
  [][/\ (/\ ApplyStep
         /\ Head(log).event_type = "DELETE"
         /\ HasKvIndex(kv_index_map, Head(log).id)
         /\ LatestGenerationOpen(kv_index_map[Head(log).id]))
        => LET c == Head(log)
               old == kv_index_map[c.id].generations
               new == kv_index_map'[c.id].generations
               n == Len(old)
           IN /\ Len(new) = n + 1
              /\ SubSeq(new, 1, n - 1) = SubSeq(old, 1, n - 1)
              /\ new[n].revisions = Append(old[n].revisions, c.op_revision)
              /\ new[n].verison = old[n].verison + 1
              /\ new[n].create_revision = old[n].create_revision
              /\ new[n + 1] = NullGeneration
              /\ kv_index_map'[c.id].mod_revision = c.op_revision
              /\ HasKvRev(kv_rev_map', c.op_revision)
              /\ GetRawKvRev(kv_rev_map', c.op_revision).is_deleted
              /\ GetRawKvRev(kv_rev_map', c.op_revision).id = c.id
              /\ c.id \notin ReturnedKeys(kv_index_map', kv_rev_map')
     /\ \A key \in Keys :
          (/\ HasKvIndex(kv_index_map, key)
           /\ ~LatestGenerationOpen(kv_index_map[key])
           /\ ~PutApplied(key))
          => key \notin ReturnedKeys(kv_index_map', kv_rev_map')]_vars

\* C9 witness: a DELETE has been applied to a key that was live at version 1,
\* and after it something else than a PUT of the key happened
C9_Witness ==
  \E key \in Keys :
    /\ HasKvIndex(kv_index_map, key)
    /\ Len(kv_index_map[key].generations) = 2
    /\ kv_index_map[key].generations[1].verison = 2
    /\ kv_index_map[key].generations[2] = NullGeneration
    /\ GetRawKvRev(kv_rev_map, kv_index_map[key].mod_revision).is_deleted
    /\ last.op = "KvPut" /\ last.status = OK /\ last.key = key


\* the kind of error of a status: the handlers of the store return EINVAL
\* (bad-argument), the lease registry reports an unknown lease id as not-found
ErrorKind(status) ==
  IF status = OK THEN "ok"
  ELSE IF status = ELEASE THEN "not-found"
  ELSE "bad-argument"

\* the puts of a client that pass the checks of key and value
ValidValues == {[value |-> v, ignore_value |-> FALSE] : v \in Values}
               \cup {[value |-> EmptyStr, ignore_value |-> TRUE]}

\* the lease is no lease, or a lease of the registry
LeaseUsable(lm, lease) == lease = 0 \/ lease \in DOMAIN lm

LeaseOfPutChecked ==
  \A key \in Keys :
    LET cur == PointGet(kv_index_map, kv_rev_map, key)
    IN cur # <<>>
       => \A in \in ValidValues, lease_id \in PutLeases :
            /\ lease_id # cur[1].lease
               => LET r == KvPut(kv_index_map, kv_rev_map, kv_lease_map, key, in.value, lease_id,
                                 TRUE, in.ignore_value, FALSE, next_revision, FirstSub)
                  IN /\ r.status # OK
                     /\ r.cmds = <<>>
                     /\ r.sub_revision = FirstSub
                     /\ LeaseUsable(kv_lease_map, lease_id) <=> r.status = ELeaseNotMatch
                     /\ ~LeaseUsable(kv_lease_map, lease_id) <=> r.status = LeaseQuery(kv_lease_map, lease_id)
            /\ LET r == KvPut(kv_index_map, kv_rev_map, kv_lease_map, key, in.value, lease_id,
                              TRUE, in.ignore_value, TRUE, next_revision, FirstSub)
               IN /\ LeaseUsable(kv_lease_map, cur[1].lease) <=> r.status = OK
                  /\ r.status = OK
                     => /\ Len(r.cmds) = 1
                        /\ r.cmds[1].ignore_lease
                        /\ r.cmds[1].lease_id = cur[1].lease

LiveKv(im, rm, key) ==
  IF HasKvIndex(im, key) /\ LatestGenerationOpen(im[key])
  THEN LET kv_index == im[key]
           g == kv_index.generations[Len(kv_index.generations)]
           kv_rev == rm[RevisionToString(kv_index.mod_revision)]
       IN [key |-> key, value |-> kv_rev.value, create_revision |-> g.create_revision.main,
           mod_revision |-> kv_index.mod_revision.main, version |-> g.verison,
           lease |-> kv_rev.lease]
  ELSE NoKv

\* every KvPut with need_prev_kv that is accepted returns the live state of the key
PrevKvIsLiveKv ==
  \A key \in Keys, in \in ValidValues, lease_id \in PutLeases, ignore_lease \in BOOLEAN :
    LET r == KvPut(kv_index_map, kv_rev_map, kv_lease_map, key, in.value, lease_id, TRUE,
                   in.ignore_value, ignore_lease, next_revision, FirstSub)
    IN r.status = OK => r.prev_kv = LiveKv(kv_index_map, kv_rev_map, key)

\* the prev_kv of every KvPut of the key with need_prev_kv that is accepted
AcceptedPrevKvs(im, rm, lm, key, main_revision) ==
  {r.prev_kv : r \in {q \in {KvPut(im, rm, lm, key, in.value, lease_id, TRUE, in.ignore_value,
                                   ignore_lease, main_revision, FirstSub) :
                               in \in ValidValues, lease_id \in PutLeases, ignore_lease \in BOOLEAN} :
                        q.status = OK}}

\* C11: a KvPut with need_prev_kv returns as prev_kv the live state of the key
\* at the time of the call (key, value, version, create and mod revision,
\* lease): after a PUT of the key has been applied it is the key with the value,
\* the lease and the main revision of that PUT, at version 1 with the PUT's
\* revision as create_revision when the key was absent or deleted and at the
\* next version of the same lifetime when it was live; when the key is absent
\* or after a DELETE of it has been applied it is empty
C11_PutReturnsPrevKv ==
  /\ []PrevKvIsLiveKv
  /\ [][/\ (ApplyStep /\ Head(log).event_type = "PUT" /\ last'.status = OK)
           => LET c == Head(log)
                  before == LiveKv(kv_index_map, kv_rev_map, c.id)
              IN \A after \in AcceptedPrevKvs(kv_index_map', kv_rev_map', kv_lease_map', c.id,
                                              next_revision) :
                   /\ after.key = c.id
                   /\ after.value = c.value
                   /\ after.mod_revision = c.op_revision.main
                   /\ ~c.ignore_lease => after.lease = c.lease_id
                   /\ IF before = NoKv
                      THEN after.version = 1 /\ after.create_revision = c.op_revision.main
                      ELSE /\ after.version = before.version + 1
                           /\ after.create_revision = before.create_revision
        /\ (ApplyStep /\ Head(log).event_type = "DELETE")
           => AcceptedPrevKvs(kv_index_map', kv_rev_map', kv_lease_map', Head(log).id,
                              next_revision) \subseteq {NoKv}
        /\ \A key \in Keys :
             ~HasKvIndex(kv_index_map, key)
             => AcceptedPrevKvs(kv_index_map, kv_rev_map, kv_lease_map, key, next_revision)
                  = {NoKv}]_vars

\* C11 witness: a second put of a key bound to a lease, with need_prev_kv, has
\* just been accepted while the key was live at version 1 with that lease
C11_Witness ==
  /\ last.op = "KvPut" /\ last.status = OK
  /\ LiveKv(kv_index_map, kv_rev_map, last.key).version = 1
  /\ LiveKv(kv_index_map, kv_rev_map, last.key).lease > 0
  /\ LiveKv(kv_index_map, kv_rev_map, last.key).value = ValX
  /\ Len(log) = 1 /\ log[1].id = last.key /\ log[1].value = ValY


\* the keys that are live: the last generation of their KvIndex is an open one
LiveKeys(im) == {k \in DOMAIN im : LatestGenerationOpen(im[k])}

\* the keys of the kvs a KvRange returned, in the order returned
KeysOf(kv) == [i \in 1..Len(kv) |-> kv[i].key]

\* the set of the elements of a sequence
Range(seq) == {seq[i] : i \in 1..Len(seq)}

\* the start keys of the range reads checked
StartKeys == {ZeroByte, KeyA, KeyB, KeyMax}

\* the literal range ends: not empty and not the single byte 0x00; the last
\* one is above every key KvPut accepts
LiteralEnds == {KeyA, KeyB, <<255>>, KeyMax, KeyMax \o <<0>>}

\* C12: with limit 0 and a range_end that is neither empty nor the byte 0x00,
\* KvRange(key, range_end) returns exactly the live keys k with
\* key <= k < range_end, each once; with an empty range_end it returns exactly
\* the key when it is live and nothing otherwise; each with its live state
C12_RangeIsHalfOpen ==
  \A key \in StartKeys, keys_only \in BOOLEAN :
    /\ \A range_end \in LiteralEnds :
         LET r == KvRange(kv_index_map, kv_rev_map, key, range_end, 0, keys_only, FALSE, 0)
             expected == {k \in LiveKeys(kv_index_map) : StrLeq(key, k) /\ StrLess(k, range_end)}
         IN /\ r.status = OK
            /\ Range(KeysOf(r.kv)) = expected
            /\ Len(r.kv) = Cardinality(expected)
            /\ ~keys_only =>
                 \A i \in 1..Len(r.kv) : r.kv[i] = LiveKv(kv_index_map, kv_rev_map, r.kv[i].key)
    /\ LET r == KvRange(kv_index_map, kv_rev_map, key, EmptyStr, 0, keys_only, FALSE, 0)
       IN /\ r.status = OK
          /\ KeysOf(r.kv) = IF key \in LiveKeys(kv_index_map) THEN <<key>> ELSE <<>>

\* C12 witness: both keys are live, the range from the first to the second
\* returns the first only, and the range to just above the second returns both
C12_Witness ==
  /\ LiveKeys(kv_index_map) = Keys
  /\ KeysOf(KvRange(kv_index_map, kv_rev_map, KeyA, KeyMax, 0, FALSE, FALSE, 0).kv) = <<KeyA>>
  /\ Len(KvRange(kv_index_map, kv_rev_map, KeyA, KeyMax \o <<0>>, 0, FALSE, FALSE, 0).kv) = 2
  /\ KvRange(kv_index_map, kv_rev_map, KeyMax, EmptyStr, 0, FALSE, FALSE, 0).kv # <<>>


\* C13: with range_end the single byte 0x00 and limit 0, KvRange(key, range_end)
\* returns every live key >= key, for every key KvPut accepts, the key of
\* max_kv_key_size bytes 0xff included
C13_RangeToInfinityReturnsAll ==
  \A key \in StartKeys :
    Range(KeysOf(KvRange(kv_index_map, kv_rev_map, key, ZeroByte, 0, FALSE, FALSE, 0).kv))
      = {k \in LiveKeys(kv_index_map) : StrLeq(key, k)}


\* the live keys of the range asked for by a literal or an empty range_end
LiveInRange(im, key, range_end) ==
  IF range_end = EmptyStr THEN {k \in LiveKeys(im) : k = key}
  ELSE {k \in LiveKeys(im) : StrLeq(key, k) /\ StrLess(k, range_end)}

\* the limits a reader gives: none, and one and two kvs
Limits == {0, 1, 2}

\* C14: the total_count_in_range KvRange reports is the number of live keys of
\* the whole range whatever the limit: also with a limit n > 0 below that number
C14_TotalCountIgnoresLimit ==
  \A key \in StartKeys, range_end \in LiteralEnds \cup {EmptyStr}, limit \in Limits :
    KvRange(kv_index_map, kv_rev_map, key, range_end, limit, FALSE, FALSE, 0).total_count_in_range
      = Cardinality(LiveInRange(kv_index_map, key, range_end))

\* C15: with count_only KvRange returns no kv and reports the number of live
\* keys of the range, which is not 0 when the range holds a live key
C15_CountOnlyCounts ==
  \A key \in StartKeys, range_end \in LiteralEnds \cup {EmptyStr} :
    LET r == KvRange(kv_index_map, kv_rev_map, key, range_end, 0, FALSE, TRUE, 0)
    IN /\ r.kv = <<>>
       /\ r.total_count_in_range = Cardinality(LiveInRange(kv_index_map, key, range_end))


\* the live keys of the range a reader asks for: from key on for the range_end
\* 0x00, key <= k < range_end for another one
LiveRequested(im, key, range_end) ==
  IF range_end = ZeroByte THEN {k \in LiveKeys(im) : StrLeq(key, k)}
  ELSE LiveInRange(im, key, range_end)

\* the first n elements of a sequence, all of them when n is 0
FirstN(seq, n) == IF n = 0 \/ n > Len(seq) THEN seq ELSE SubSeq(seq, 1, n)

\* C16: KvRange returns the live keys of the range in ascending order of the
\* key, each once: all of them with limit 0, the min(n, their number) smallest
\* with a limit n > 0
C16_RangeAscendingWithLimit ==
  \A key \in StartKeys, range_end \in LiteralEnds \cup {ZeroByte}, limit \in Limits :
    KeysOf(KvRange(kv_index_map, kv_rev_map, key, range_end, limit, FALSE, FALSE, 0).kv)
      = FirstN(SortedSeq(LiveRequested(kv_index_map, key, range_end)), limit)


RECURSIVE CompactKeys(_, _, _, _)
\* the maps after the COMPACTION sub-commands of KvCompact(keys, compact_revision)
\* have been applied, one key after the other
CompactKeys(im, rm, keys, compact_revision) ==
  IF keys = <<>> THEN [im |-> im, rm |-> rm]
  ELSE Only({CompactKeys(r.im, r.rm, Tail(keys), compact_revision) :
             r \in {KvCompactApply(im, rm, Head(keys), compact_revision)}})

\* the key sequences compacted twice: those of the compaction task, and one
\* that names a key twice
CompactKeySeqs == KeySeqs \cup {<<KeyA, KeyA>>}

\* in this state, compacting any keys at any revision twice leaves what
\* compacting them once leaves
CompactTwiceIsCompactOnce ==
  \A keys \in CompactKeySeqs, compact_revision \in CompactRevs :
    \A once \in {CompactKeys(kv_index_map, kv_rev_map, keys, compact_revision)} :
      CompactKeys(once.im, once.rm, keys, compact_revision) = once

\* C17: compaction is idempotent: in every reachable state, for every key
\* sequence and revision R, applying COMPACT(keys, R) a second time right after
\* the first leaves the KvIndex map and the KvRev map as the first left them,
\* also when the first erased a KvIndex; and a COMPACTION sub-command applied
\* again to the state its apply left changes neither map
C17_CompactionIdempotent ==
  /\ []CompactTwiceIsCompactOnce
  /\ [][(ApplyStep /\ Head(log).event_type = "COMPACTION")
        => \A again \in {KvCompactApply(kv_index_map', kv_rev_map', Head(log).id,
                                          Head(log).op_revision)} :
             again.im = kv_index_map' /\ again.rm = kv_rev_map']_vars

\* C17 witness: a compaction above every revision has been applied to a key
\* that was put and deleted, and erased its KvIndex and its KvRevs
C17_Witness ==
  /\ last.op = "Apply" /\ last.cmd.event_type = "COMPACTION" /\ last.status = OK
  /\ last.changed
  /\ ~HasKvIndex(kv_index_map, last.cmd.id)
  /\ kv_rev_map = <<>>
  /\ next_revision > 2


\* C18: a watch is one-shot. An applied PUT or DELETE of a key with a pending
\* watch fires it with one event of that type and key and removes it from the
\* table; the PUT event carries new_kv = the key with the value and the main
\* revision of the PUT, and an empty prev_kv (and version 1) when the key was
\* absent or deleted, the previous value when it was live. A key without
\* pending watch gets no event, so a later put does not fire a watch that has
\* fired: an event is only ever fired for a watch that is in the table before
\* the step and not after it
C18_WatchIsOneShot ==
  [][/\ (ApplyStep /\ Head(log).event_type \in {"PUT", "DELETE"})
        => LET c == Head(log)
               before == LiveKv(kv_index_map, kv_rev_map, c.id)
               event == last'.event
           IN /\ (/\ c.id \in one_time_watch_map
                  /\ last'.status = OK
                  /\ c.event_type = "DELETE" => HasKvIndex(kv_index_map, c.id))
                 => /\ event.type = c.event_type
                    /\ event.key = c.id
                    /\ one_time_watch_map' = one_time_watch_map \ {c.id}
                    /\ c.event_type = "PUT"
                       => /\ event.new_kv.key = c.id
                          /\ event.new_kv.value = c.value
                          /\ event.new_kv.mod_revision = c.op_revision.main
                          /\ event.new_kv = LiveKv(kv_index_map', kv_rev_map', c.id)
                          /\ IF before = NoKv
                             THEN event.prev_kv = NoKv /\ event.new_kv.version = 1
                             ELSE /\ event.prev_kv.key = c.id
                                  /\ event.prev_kv.value = before.value
                                  /\ event.prev_kv.mod_revision = before.mod_revision
              /\ c.id \notin one_time_watch_map
                 => event = NoEvent /\ one_time_watch_map' = one_time_watch_map
     /\ last'.event # NoEvent
        => /\ ApplyStep
           /\ last'.event.key \in one_time_watch_map
           /\ last'.event.key \notin one_time_watch_map']_vars

\* C18 witness: the first PUT of a key with a pending watch has been applied
\* and fired the watch with a PUT event with the value put and an empty
\* prev_kv; the watch is gone, and a second PUT of the key waits in the log
C18_Witness ==
  /\ last.op = "Apply" /\ last.cmd.event_type = "PUT" /\ last.status = OK
  /\ last.event.type = "PUT"
  /\ last.event.key = last.cmd.id
  /\ last.event.prev_kv = NoKv
  /\ last.event.new_kv.value = ValX
  /\ one_time_watch_map = {}
  /\ Len(log) = 1 /\ log[1].event_type = "PUT" /\ log[1].id = last.cmd.id /\ log[1].value = ValY


\* the sub-commands the step appends to the log
Proposed == SubSeq(log', Len(log) + 1, Len(log'))

\* C19: when a lease expires, every key bound to it is deleted at a fresh
\* revision and the lease is removed with them: the expiry proposes, in one
\* MetaIncrement, DELETE sub-commands at the next main revision followed by the
\* removal of the lease; once the removal is applied KvRange returns none of
\* the keys that were bound to the lease and each of them that has a KvIndex
\* has a tombstone as last generation; and the DELETE applied to such a key
\* fires a DELETE event for a watch pending on it
C19_LeaseExpiryDeletesKeys ==
  [][/\ last'.op = "LeaseRevoke"
        => /\ Len(Proposed) >= 1
           /\ Proposed[Len(Proposed)].event_type = "LEASE_REVOKE"
           /\ \A i \in 1..(Len(Proposed) - 1) :
                /\ Proposed[i].event_type = "DELETE"
                /\ Proposed[i].op_revision.main = next_revision
                /\ \A r \in StoredRevisions(kv_rev_map) : RevLess(r, Proposed[i].op_revision)
     /\ (/\ ApplyStep
         /\ Head(log).event_type = "LEASE_REVOKE"
         /\ Head(log).lease_id \in DOMAIN kv_lease_map)
        => /\ Head(log).lease_id \notin DOMAIN kv_lease_map'
           /\ \A key \in kv_lease_map[Head(log).lease_id] :
                /\ key \notin ReturnedKeys(kv_index_map', kv_rev_map')
                /\ HasKvIndex(kv_index_map', key)
                   => kv_index_map'[key].generations[Len(kv_index_map'[key].generations)]
                        = NullGeneration
     /\ (/\ ApplyStep
         /\ Head(log).event_type = "DELETE"
         /\ HasKvIndex(kv_index_map, Head(log).id)
         /\ Head(log).id \in one_time_watch_map)
        => /\ last'.event.type = "DELETE"
           /\ last'.event.key = Head(log).id]_vars


RECURSIVE ApplyTrace(_, _, _, _, _)
\* what a replica with the KvIndex map im, the KvRev map rm, the lease map lm
\* and the watch table wm holds after each of the sub-commands cmds: the two
\* maps, the leases that exist and the status of the apply
ApplyTrace(im, rm, lm, wm, cmds) ==
  IF cmds = <<>> THEN <<>>
  ELSE Only({<<[im |-> r.im, rm |-> r.rm, leases |-> DOMAIN r.lm, status |-> r.status]>>
               \o ApplyTrace(r.im, r.rm, r.lm, r.wm, Tail(cmds)) :
             r \in {ApplyCmd(im, rm, lm, wm, Head(cmds))}})

\* what a replica may hold that is not replicated: any watches registered on it,
\* and any keys bound to the leases by the requests it served
LocalWatches == SUBSET Keys
LocalBindings(lm) == [DOMAIN lm -> SUBSET Keys]

\* C20: apply is deterministic across replicas: a replica that holds the same
\* KvIndex map, KvRev map and leases, with any watches registered on it and any
\* keys bound to the leases by requests it served, and applies the same
\* sub-commands (PUT, DELETE, COMPACTION, lease removal), has the same KvIndex
\* map and KvRev map (and leases, and status) after every one of them
C20_ApplyDeterministic ==
  \A trace \in {ApplyTrace(kv_index_map, kv_rev_map, kv_lease_map, one_time_watch_map, log)} :
    \A wm \in LocalWatches, lm \in LocalBindings(kv_lease_map) :
      ApplyTrace(kv_index_map, kv_rev_map, lm, wm, log) = trace

\* C20 witness: a PUT bound to an existing lease waits to be applied to a key
\* on which a watch is pending here: here its apply fires the watch, on a
\* replica without the watch it fires none, and both write the same maps
C20_Witness ==
  /\ log # <<>>
  /\ Head(log).event_type = "PUT" /\ Head(log).lease_id \in DOMAIN kv_lease_map
  /\ Head(log).id \in kv_lease_map[Head(log).lease_id]
  /\ Head(log).id \in one_time_watch_map
  /\ ApplyCmd(kv_index_map, kv_rev_map, kv_lease_map, one_time_watch_map, Head(log)).event
       # ApplyCmd(kv_index_map, kv_rev_map, kv_lease_map, {}, Head(log)).event
  /\ ApplyCmd(kv_index_map, kv_rev_map, kv_lease_map, one_time_watch_map, Head(log)).im
       # kv_index_map

\* ------------------------------------------------- errors add no sub-command
\* a handler result that left the caller's MetaIncrement and sub_revision alone
NothingAdded(r, sub_revision) == r.cmds = <<>> /\ r.sub_revision = sub_revision

\* the KvPut calls of the state: every input at the next main revision
RejectedPutsAddNothing ==
  \A in \in PutInputs :
    \A r \in {KvPut(kv_index_map, kv_rev_map, kv_lease_map, in.key, in.value, in.lease_id, TRUE,
                    in.ignore_value, in.ignore_lease, next_revision, FirstSub)} :
      r.status # OK => NothingAdded(r, FirstSub)

RejectedDeletesAddNothing ==
  \A key \in Keys, range_end \in RangeEnds, need_lease_remove_keys \in BOOLEAN :
    \A r \in {KvDeleteRange(kv_index_map, kv_rev_map, kv_lease_map, key, range_end, TRUE,
                            next_revision, FirstSub, need_lease_remove_keys, 0)} :
      r.status # OK => NothingAdded(r, FirstSub)

\* C21: whenever KvPut or KvDeleteRange returns a non-OK status, the
\* MetaIncrement passed in has gained no sub-command and sub_revision is
\* unchanged
C21_ErrorsAddNoSubCommand == RejectedPutsAddNothing /\ RejectedDeletesAddNothing

\* ------------------------------------------------------- key-size boundary
\* KvPut of the state on a key, for a value and flags, without a lease
PutOfKey(key, value, ignore_value, ignore_lease) ==
  KvPut(kv_index_map, kv_rev_map, kv_lease_map, key, value, 0, TRUE, ignore_value, ignore_lease,
        next_revision, FirstSub)

\* C22: a KvPut whose key has exactly max_kv_key_size bytes passes validation
\* and emits its sub-command; a KvPut whose key is one byte longer, or empty,
\* is rejected with a bad-argument error and emits nothing
C22_KeySizeBoundary ==
  /\ Len(KeyMax) = MaxKvKeySize /\ Len(KeyTooLong) = MaxKvKeySize + 1
  /\ \A value \in Values :
       \A r \in {PutOfKey(KeyMax, value, FALSE, FALSE)} :
         /\ r.status = OK
         /\ Len(r.cmds) = 1
         /\ r.cmds[1].event_type = "PUT" /\ r.cmds[1].id = KeyMax /\ r.cmds[1].value = value
         /\ r.cmds[1].op_revision = Rev(next_revision, FirstSub)
  /\ \A in \in PutInputs :
       in.key = KeyMax =>
         \A r \in {PutOfKey(KeyMax, in.value, in.ignore_value, in.ignore_lease)} :
           r.status \notin {EKeyTooLong, EKeyEmpty}
  /\ \A key \in {KeyTooLong, EmptyStr}, value \in Values \cup {EmptyStr, ValTooLong},
        ignore_value \in BOOLEAN, ignore_lease \in BOOLEAN :
       \A r \in {PutOfKey(key, value, ignore_value, ignore_lease)} :
         /\ r.status = IF key = EmptyStr THEN EKeyEmpty ELSE EKeyTooLong
         /\ ErrorKind(r.status) = "bad-argument"
         /\ r.cmds = <<>> /\ r.sub_revision = FirstSub

\* the put of a key of max_kv_key_size bytes has been accepted and applied,
\* and a put of a key one byte longer has just been rejected
C22_Witness ==
  /\ HasKvIndex(kv_index_map, KeyMax)
  /\ LatestGenerationOpen(kv_index_map[KeyMax])
  /\ last.op = "KvPut" /\ last.key = KeyTooLong /\ last.status = EKeyTooLong

\* ------------------------------------------------------- revision encoding
\* C23: RevisionToString is a 17-byte string [main:8][separator:1][sub:8];
\* the lexicographic order of the encodings is the numeric order of the
\* (main, sub) pairs, and StringToRevision(RevisionToString(r)) = r
C23_RevisionEncodingOrdered ==
  /\ \A k \in DOMAIN kv_rev_map :
       /\ Len(k) = 17 /\ k[9] = Separator
       /\ SubSeq(k, 1, 8) = WriteLong(kv_rev_map[k].mod_revision.main)
       /\ SubSeq(k, 10, 17) = WriteLong(kv_rev_map[k].mod_revision.sub)
       /\ StringToRevision(k) = kv_rev_map[k].mod_revision
       /\ GetRawKvRev(kv_rev_map, kv_rev_map[k].mod_revision) = kv_rev_map[k]
  /\ \A k1, k2 \in DOMAIN kv_rev_map :
       StrLess(k1, k2) <=> RevLess(kv_rev_map[k1].mod_revision, kv_rev_map[k2].mod_revision)

\* two revisions are stored of which the smaller has the larger sub and the
\* larger low byte of main, next to the largest main and a revision whose
\* bytes are all zero but the high ones
C23_Witness ==
  /\ HasKvRev(kv_rev_map, Rev(255, 256))
  /\ HasKvRev(kv_rev_map, Rev(256, 0))
  /\ HasKvRev(kv_rev_map, Rev(2147483647, 1))
  /\ StrLess(RevisionToString(Rev(255, 256)), RevisionToString(Rev(256, 0)))

\* ------------------------------------------------- generations and deletes
\* the generations of a KeyIndex that list a revision
GenerationsOf(kv_index, revision) ==
  {j \in 1..Len(kv_index.generations) :
     \E i \in 1..Len(kv_index.generations[j].revisions) :
       kv_index.generations[j].revisions[i] = revision}

\* the revisions listed in the generations of a KeyIndex
ListedRevisions(kv_index) ==
  {revision \in IndexRevisions(kv_index) : GenerationsOf(kv_index, revision) # {}}

\* the listed revisions of a key at which a PUT was applied
PutRevisions(im, rm, key) ==
  {revision \in ListedRevisions(im[key]) :
     HasKvRev(rm, revision) /\ ~GetRawKvRev(rm, revision).is_deleted}

\* a DELETE was applied to the key at a revision between r1 and r2: it left a
\* KvRev marked is_deleted
DeleteAppliedBetween(rm, key, r1, r2) ==
  \E k \in DOMAIN rm :
    /\ rm[k].id = key /\ rm[k].is_deleted
    /\ RevLess(r1, rm[k].mod_revision) /\ RevLess(rm[k].mod_revision, r2)

\* C24: two applied puts of a key at revisions R1 < R2, both still in the
\* KeyIndex, are in the same generation iff no delete was applied to the key
\* between them
C24_SameGenerationIffNoDelete ==
  \A key \in DOMAIN kv_index_map :
    \A r1, r2 \in PutRevisions(kv_index_map, kv_rev_map, key) :
      RevLess(r1, r2) =>
        /\ Cardinality(GenerationsOf(kv_index_map[key], r1)) = 1
        /\ Cardinality(GenerationsOf(kv_index_map[key], r2)) = 1
        /\ (GenerationsOf(kv_index_map[key], r1) = GenerationsOf(kv_index_map[key], r2))
             <=> ~DeleteAppliedBetween(kv_rev_map, key, r1, r2)

\* a key was put, deleted and put again, and both puts are in its KeyIndex, in
\* different generations
C24_Witness ==
  \E key \in DOMAIN kv_index_map :
    \E r1, r2 \in PutRevisions(kv_index_map, kv_rev_map, key) :
      /\ RevLess(r1, r2)
      /\ DeleteAppliedBetween(kv_rev_map, key, r1, r2)
      /\ GenerationsOf(kv_index_map[key], r1) # GenerationsOf(kv_index_map[key], r2)
      /\ last.op = "Apply" /\ last.cmd.event_type = "PUT" /\ last.cmd.op_revision = r2

\* ------------------------------------------------------- no orphan KvRevs
\* the revision slots that name a revision: <<key, generation, position>>
SlotsOf(im, revision) ==
  UNION {UNION {{<<key, j, i>> : i \in {i \in 1..Len(im[key].generations[j].revisions) :
                                           im[key].generations[j].revisions[i] = revision}} :
                j \in 1..Len(im[key].generations)} :
         key \in DOMAIN im}

\* C25: every KvRev of the revision map is referenced by exactly one revision
\* slot of one generation of one KeyIndex, after any PUT, DELETE and COMPACT
\* applies, a DELETE of an already deleted key included
C25_EveryKvRevReferencedOnce ==
  \A k \in DOMAIN kv_rev_map :
    Cardinality(SlotsOf(kv_index_map, kv_rev_map[k].mod_revision)) = 1

\* ------------------------------------------------- the put after a delete
\* a PUT is applied with success to a key whose last generation is the empty
\* generation a delete left
PutOnTombstone ==
  /\ ApplyStep /\ Head(log).event_type = "PUT" /\ last'.status = OK
  /\ HasKvIndex(kv_index_map, Head(log).id)
  /\ ~LatestGenerationOpen(kv_index_map[Head(log).id])

CompactAt == {Rev(m, 0) : m \in 1..(MaxRev + 1)}

\* the revisions of generation j that COMPACT at compact_revision retains:
\* those not below it, and the final revision of the most recent generation
\* when that generation is open
KeptRevisions(generations, j, compact_revision) ==
  LET g == generations[j]
      IsKept(i) == \/ ~RevLess(g.revisions[i], compact_revision)
                   \/ (j = Len(generations) /\ g.has_create_revision /\ i = Len(g.revisions))
  IN [x \in 1..Cardinality({i \in 1..Len(g.revisions) : IsKept(i)}) |->
        g.revisions[Only({i \in 1..Len(g.revisions) :
                            IsKept(i) /\ Cardinality({h \in 1..i : IsKept(h)}) = x})]]

RECURSIVE KeptGenerations(_, _, _)
\* the generations with a create_revision that keep a revision, each with the
\* revisions it keeps
KeptGenerations(generations, j, compact_revision) ==
  IF j > Len(generations) THEN <<>>
  ELSE LET kept == KeptRevisions(generations, j, compact_revision)
       IN (IF generations[j].has_create_revision /\ Len(kept) > 0
           THEN <<[generations[j] EXCEPT !.revisions = kept]>> ELSE <<>>)
          \o KeptGenerations(generations, j + 1, compact_revision)

\* the generations of a key, none when it has no KeyIndex
GenerationsOfKey(im, key) == IF HasKvIndex(im, key) THEN im[key].generations ELSE <<>>

\* the generations with a create_revision
PutGenerationsOf(generations) ==
  LET IsPut(g) == g.has_create_revision IN SelectSeq(generations, IsPut)

\* the KvRevs of a key in the revision map
KvRevsOfKey(rm, key) == {k \in DOMAIN rm : rm[k].id = key}

\* the final revision of the most recent generation of a key, when it is open
FinalRevisions(im, key) ==
  IF LatestGenerationOpen(im[key])
  THEN LET g == im[key].generations[Len(im[key].generations)]
       IN {g.revisions[Len(g.revisions)]}
  ELSE {}

\* COMPACT(key, compact_revision) applied to the maps im, rm
CompactRetainsFrom(im, rm, key, compact_revision) ==
  \A r \in {KvCompactApply(im, rm, key, compact_revision)} :
    /\ r.status = OK
    /\ PutGenerationsOf(GenerationsOfKey(r.im, key))
         = KeptGenerations(im[key].generations, 1, compact_revision)
    /\ \A revision \in ListedRevisions(im[key]) :
         (~HasKvIndex(r.im, key) \/ revision \notin ListedRevisions(r.im[key]))
           => ~HasKvRev(r.rm, revision)
    /\ \A k \in KvRevsOfKey(r.rm, key) :
         RevLess(r.rm[k].mod_revision, compact_revision)
           => r.rm[k].mod_revision \in FinalRevisions(im, key)
    /\ (Len(im[key].generations) = 1 /\ LatestGenerationOpen(im[key])
        /\ compact_revision.main = im[key].mod_revision.main)
         => Cardinality(KvRevsOfKey(r.rm, key)) = 1
    /\ HasKvIndex(r.im, key) <=> Len(KeptGenerations(im[key].generations, 1, compact_revision)) > 0

\* C27: after COMPACT(k, R) the KeyIndex of k retains exactly the generations
\* that contain a revision >= R and in them exactly the revisions >= R, plus
\* the final revision of the most recent open generation; every revision
\* removed from the KeyIndex is erased from the revision map, which holds no
\* KvRev of k below R other than that final revision (one entry after N puts
\* and a compaction at the last revision); a KeyIndex left without
\* generations is erased
C27_CompactRetainsFromRevision ==
  \A key \in DOMAIN kv_index_map, compact_revision \in CompactAt :
    CompactRetainsFrom(kv_index_map, kv_rev_map, key, compact_revision)

\* --------------------------------------------- the keys of a compaction run
\* a run of CompactionTask that was not skipped
CompactionTaskRan ==
  /\ last'.op = "CompactionTask"
  /\ next_revision >= CompactionRetentionRevCount

\* C28: one run of CompactionTask issues COMPACT commands that together name
\* every key of the key-index map at the start of the run exactly once, in
\* batches of at most the batch size, for any number of keys, all at compact
\* revision (next_revision - retention count, 0)
C28_CompactionTaskNamesEveryKey ==
  [][CompactionTaskRan =>
       /\ \A key \in DOMAIN kv_index_map :
            Cardinality({i \in 1..Len(Proposed) : Proposed[i].id = key}) = 1
       /\ \A i \in 1..Len(Proposed) :
            /\ Proposed[i].event_type = "COMPACTION"
            /\ Proposed[i].id \in DOMAIN kv_index_map
            /\ Proposed[i].op_revision = Rev(next_revision - CompactionRetentionRevCount, 0)
       /\ \A batches \in {CompactionTaskBatches(kv_index_map)} :
            \A i \in 1..Len(batches) : Len(batches[i]) <= CompactionBatchSize]_vars

\* ------------------------------------------------------------ mod_revision
\* the last revision of the last generation with a create_revision
LastRevisions(kv_index) ==
  {g.revisions[Len(g.revisions)] :
     g \in {gs[Len(gs)] : gs \in {PutGenerationsOf(kv_index.generations)} \ {<<>>}}}

\* C29: the mod_revision of every KeyIndex is the last revision of its last
\* non-tombstone generation (the delete revision that closed it when the key
\* is tombstoned), and never a revision that appears in no generation
C29_ModRevisionIsLastRevision ==
  \A key \in DOMAIN kv_index_map :
    /\ LastRevisions(kv_index_map[key]) = {kv_index_map[key].mod_revision}
    /\ GenerationsOf(kv_index_map[key], kv_index_map[key].mod_revision) # {}

\* ------------------------------------------------------- crash during apply
\* every revision a KeyIndex names has a KvRev
IndexHasKvRevs(im, rm) ==
  \A key \in DOMAIN im :
    /\ HasKvRev(rm, im[key].mod_revision)
    /\ \A revision \in ListedRevisions(im[key]) : HasKvRev(rm, revision)

\* the maps rebuilt from the persisted tuples after a crash during the apply
\* of the sub-command c: the maps before the step, or the maps after any of
\* its meta-writer calls
Recovered(im, rm, lm, wm, c) ==
  {[im |-> im, rm |-> rm]}
  \cup {states[j] : states \in {MetaWriterStates(im, rm, lm, wm, c)},
                    j \in 1..Len(MetaWriterStates(im, rm, lm, wm, c))}

\* C30: each apply step persists its changes through one atomic meta-writer
\* call: after a crash at any point of a PUT, DELETE or COMPACT apply the
\* rebuilt maps are those before or those after the step, and hold no
\* KeyIndex that names a revision without a KvRev
C30_ApplyPersistsAtomically ==
  log # <<>> =>
    \A r \in {ApplyCmd(kv_index_map, kv_rev_map, kv_lease_map, one_time_watch_map, Head(log))} :
      /\ Len(MetaWriterStates(kv_index_map, kv_rev_map, kv_lease_map, one_time_watch_map,
                              Head(log))) <= 1
      /\ \A s \in Recovered(kv_index_map, kv_rev_map, kv_lease_map, one_time_watch_map, Head(log)) :
           /\ \/ s = [im |-> kv_index_map, rm |-> kv_rev_map]
              \/ s = [im |-> r.im, rm |-> r.rm]
           /\ IndexHasKvRevs(kv_index_map, kv_rev_map) => IndexHasKvRevs(s.im, s.rm)

\* ------------------------------------------- history kept until compaction
\* the step leaves every KvRev that existed before it as it was
KvRevsKept == \A k \in DOMAIN kv_rev_map : k \in DOMAIN kv_rev_map' /\ kv_rev_map'[k] = kv_rev_map[k]

\* the step leaves the KeyIndex of every key but one as it was
OtherIndexesKept(key) ==
  /\ DOMAIN kv_index_map' \ {key} = DOMAIN kv_index_map \ {key}
  /\ \A other \in DOMAIN kv_index_map \ {key} : kv_index_map'[other] = kv_index_map[other]

\* C31: a PUT or DELETE apply on a key removes or modifies no KvRev that
\* existed before it and leaves the KeyIndex of every other key unchanged: it
\* only rewrites the KeyIndex of its key and inserts one KvRev at its own
\* revision; KvRevs and KeyIndex records disappear only in a COMPACT apply,
\* and a KeyIndex only when the compaction leaves it no generation
C31_HistoryKeptUntilCompaction ==
  [][/\ (ApplyStep /\ Head(log).event_type \in {"PUT", "DELETE"}) =>
          /\ KvRevsKept
          /\ OtherIndexesKept(Head(log).id)
          /\ DOMAIN kv_index_map \subseteq DOMAIN kv_index_map'
          /\ DOMAIN kv_rev_map' \ DOMAIN kv_rev_map \subseteq {RevisionToString(Head(log).op_revision)}
          /\ last'.changed =>
               /\ HasKvIndex(kv_index_map', Head(log).id)
               /\ kv_index_map'[Head(log).id].mod_revision = Head(log).op_revision
               /\ HasKvRev(kv_rev_map', Head(log).op_revision)
               /\ ~HasKvRev(kv_rev_map, Head(log).op_revision)
     /\ (~KvRevsKept \/ ~(DOMAIN kv_index_map \subseteq DOMAIN kv_index_map')) =>
          /\ ApplyStep /\ Head(log).event_type = "COMPACTION"
          /\ OtherIndexesKept(Head(log).id)
          /\ DOMAIN kv_rev_map' \subseteq DOMAIN kv_rev_map
          /\ \A k \in DOMAIN kv_rev_map' : kv_rev_map'[k] = kv_rev_map[k]
          /\ ~HasKvIndex(kv_index_map', Head(log).id) =>
               KeptGenerations(kv_index_map[Head(log).id].generations, 1,
                               Head(log).op_revision) = <<>>]_vars

\* a PUT has just been applied to a key that had history: the KvRevs of its
\* earlier put and delete are still in the revision map
C31_Witness ==
  /\ last.op = "Apply" /\ last.cmd.event_type = "PUT" /\ last.changed
  /\ Cardinality(KvRevsOfKey(kv_rev_map, last.cmd.id)) >= 2
  /\ \E k \in KvRevsOfKey(kv_rev_map, last.cmd.id) :
       RevLess(kv_rev_map[k].mod_revision, last.cmd.op_revision)

\* ------------------------------------------------ prev_kv of a watch event
\* the key has a value: its last generation is open
HasValue(im, key) == HasKvIndex(im, key) /\ LatestGenerationOpen(im[key])

\* the prev_kv of an event says what the key was
Populated(event) == event.prev_kv # NoKv /\ event.prev_kv.key = event.key /\ event.prev_kv.create_revision > 0

\* the event a sub-command would send to a watch of its key in this state
EventOf(c) == ApplyCmd(kv_index_map, kv_rev_map, kv_lease_map, {c.id}, c).event

\* the PUT and DELETE sub-commands that can be applied next
NextCmds == {PutCmd(key, Rev(next_revision, 0), FALSE, 0, FALSE, ValX) : key \in Keys}
            \cup {DeleteCmd(key, Rev(next_revision, 0)) : key \in Keys}

\* C32: the event sent to the watch of a key after a PUT or DELETE apply
\* carries a populated prev_kv exactly when the last generation of the key was
\* open before the command; for a first put, a put after a delete and a delete
\* of an already deleted key prev_kv is empty
C32_PrevKvIffGenerationOpen ==
  [][/\ (ApplyStep /\ last'.event.type # "NONE") =>
          /\ Head(log).event_type \in {"PUT", "DELETE"}
          /\ last'.event.type = Head(log).event_type /\ last'.event.key = Head(log).id
          /\ Populated(last'.event) <=> HasValue(kv_index_map, Head(log).id)
          /\ ~Populated(last'.event) => last'.event.prev_kv = NoKv
     /\ \A c \in NextCmds : \A event \in {EventOf(c)} :
          \/ (c.event_type = "DELETE" /\ ~HasKvIndex(kv_index_map, c.id) /\ event = NoEvent)
          \/ /\ event.type = c.event_type
             /\ Populated(event) <=> HasValue(kv_index_map, c.id)
             /\ ~Populated(event) => event.prev_kv = NoKv]_vars

\* a watch has just received the event of a command applied to a key that had
\* a value, with its prev_kv, and the other key has been deleted
C32_Witness ==
  /\ last.op = "Apply" /\ last.event.type # "NONE"
  /\ Populated(last.event)
  /\ \E key \in Keys : HasKvIndex(kv_index_map, key) /\ ~HasValue(kv_index_map, key)

\* ------------------------------------------- the store when a watch fires
\* C33: a watch fires for a command only after both maps are updated for it
\* and for every command applied before it: when the watch fires, a KvRange
\* of the watched key returns exactly the new_kv of the event, and nothing
\* for a DELETE event
C33_WatchFiresAfterMapsUpdated ==
  (last.op = "Apply" /\ last.event.type # "NONE") =>
    /\ last.event.key = last.cmd.id
    /\ HasKvIndex(kv_index_map, last.event.key)
    /\ kv_index_map[last.event.key].mod_revision = last.cmd.op_revision
    /\ HasKvRev(kv_rev_map, last.cmd.op_revision)
    /\ last.event.type = "PUT" =>
         PointGet(kv_index_map, kv_rev_map, last.event.key) = <<last.event.new_kv>>
    /\ last.event.type = "DELETE" =>
         PointGet(kv_index_map, kv_rev_map, last.event.key) = <<>>
    /\ last.event.type \in {"PUT", "DELETE"}

\* a watch has just fired for the second PUT of the lifetime of a key, applied
\* at the last revision, and a KvRange of the key returns the new_kv
C33_Witness ==
  /\ last.op = "Apply" /\ last.event.type = "PUT"
  /\ last.event.new_kv.version = 2
  /\ last.event.new_kv.mod_revision = MaxRevWatch
  /\ PointGet(kv_index_map, kv_rev_map, last.event.key) = <<last.event.new_kv>>

\* ------------------------------------------- one lease for one lifetime
\* the leases of the put KvRevs a generation lists
LeasesOfGeneration(rm, generation) ==
  {rm[RevisionToString(generation.revisions[i])].lease :
     i \in {j \in DOMAIN generation.revisions :
              /\ HasKvRev(rm, generation.revisions[j])
              /\ ~rm[RevisionToString(generation.revisions[j])].is_deleted}}

\* C34: in every reachable state, also when several KvPut requests for one
\* key are validated before any of them is applied, all put KvRevs within one
\* generation of a key carry the same lease id
C34_OneLeasePerGeneration ==
  \A key \in DOMAIN kv_index_map :
    \A i \in DOMAIN kv_index_map[key].generations :
      Cardinality(LeasesOfGeneration(kv_rev_map, kv_index_map[key].generations[i])) <= 1

\* ------------------------------------------- readers alongside a PUT apply
\* the pairs of maps a KvRange that runs alongside the apply of a PUT can
\* read: the apply writes the KvIndex, then the KvRev; the reader takes the
\* KvIndex at one moment and the KvRev at the same or a later moment
\* (moment 0: nothing written, 1: KvIndex written, 2: both written)
ConcurrentViews(im, rm, lm, wm, c) ==
  LET r == KvPutApply(im, rm, lm, wm, c.id, c.op_revision, c.ignore_lease, c.lease_id,
                      c.ignore_value, c.value)
  IN IF r.status # OK THEN {[im |-> im, rm |-> rm]}
     ELSE {[im |-> IF m[1] >= 1 THEN r.im ELSE im, rm |-> IF m[2] >= 2 THEN r.rm ELSE rm] :
             m \in {x \in (0..2) \X (0..2) : x[1] <= x[2]}}

\* C35: a KvRange that runs alongside a PUT apply never observes a partly
\* applied command: a key that is live before and after the apply is returned
\* by every such KvRange that covers it, with its old or its new KvRev
C35_RangeNeverDropsLiveKey ==
  (log # <<>> /\ Head(log).event_type = "PUT") =>
    \A r \in {ApplyCmd(kv_index_map, kv_rev_map, kv_lease_map, one_time_watch_map, Head(log))} :
      \A key \in {k \in Keys : /\ PointGet(kv_index_map, kv_rev_map, k) # <<>>
                               /\ PointGet(r.im, r.rm, k) # <<>>} :
        \A view \in ConcurrentViews(kv_index_map, kv_rev_map, kv_lease_map, one_time_watch_map,
                                    Head(log)) :
          /\ PointGet(view.im, view.rm, key) \in
               {PointGet(kv_index_map, kv_rev_map, key), PointGet(r.im, r.rm, key)}
          /\ key \in Range(KeysOf(KvRange(view.im, view.rm, KeyA, KeyMax \o <<0>>, 0, FALSE, FALSE, 0).kv))

\* ------------------------------------------ the two maps refer to each other
\* C36: in every reachable state every revision listed in a generation of a
\* KeyIndex has a KvRev whose key is the id of the KeyIndex and whose
\* mod_revision is that revision; for a live key the KvRev at mod_revision is
\* not is_deleted and has the version and the create_revision of the last
\* generation of the key
C36_MapsReferentiallyIntact ==
  \A key \in DOMAIN kv_index_map : \A kv_index \in {kv_index_map[key]} :
    /\ kv_index.id = key
    /\ \A revision \in ListedRevisions(kv_index) :
         /\ HasKvRev(kv_rev_map, revision)
         /\ GetRawKvRev(kv_rev_map, revision).id = key
         /\ GetRawKvRev(kv_rev_map, revision).mod_revision = revision
    /\ LatestGenerationOpen(kv_index) =>
         /\ HasKvRev(kv_rev_map, kv_index.mod_revision)
         /\ \A kv_rev \in {GetRawKvRev(kv_rev_map, kv_index.mod_revision)} :
              /\ ~kv_rev.is_deleted
              /\ kv_rev.id = key
              /\ kv_rev.version = kv_index.generations[Len(kv_index.generations)].verison
              /\ kv_rev.create_revision =
                   kv_index.generations[Len(kv_index.generations)].create_revision

\* a compaction has just removed history of a key that is live, and the key
\* still lists a revision
C36_Witness ==
  /\ last.op = "Apply" /\ last.cmd.event_type = "COMPACTION" /\ last.changed
  /\ HasValue(kv_index_map, last.cmd.id)
  /\ Cardinality(ListedRevisions(kv_index_map[last.cmd.id])) >= 1

\* ------------------------------------------------- what prev_kv holds
\* C37: when a PUT or DELETE is applied to a live key, the prev_kv sent to
\* the watch is the state of the key right before the command: the record
\* KvRange would have returned just before the apply (previous value, lease,
\* mod_revision, create_revision and version)
C37_PrevKvIsStateBefore ==
  [][(ApplyStep /\ last'.event.type # "NONE" /\ HasValue(kv_index_map, Head(log).id)) =>
       <<last'.event.prev_kv>> = PointGet(kv_index_map, kv_rev_map, Head(log).id)]_vars

\* ------------------------------------------------- one DELETE, one event
\* C38: a DELETE event is emitted only by a DELETE apply that closes an open
\* generation, so at most one between two PUT applies of a key: a DELETE
\* applied to a key that is absent or already deleted emits no event, also
\* when a watch of the key is pending, and writes no KvRev
C38_DeleteEventOnlyOnClose ==
  [][(ApplyStep /\ Head(log).event_type = "DELETE") =>
       /\ last'.event.type = "DELETE" => HasValue(kv_index_map, Head(log).id)
       /\ ~HasValue(kv_index_map, Head(log).id) =>
            /\ kv_rev_map' = kv_rev_map
            /\ EventOf(Head(log)) = NoEvent]_vars

\* ---------------------------------------- keys handed to lease key removal
\* the keys of a list of kvs that are bound to a lease
KeysBoundTo(kvs, lease) == {kvs[i].key : i \in {j \in DOMAIN kvs : kvs[j].lease = lease}}

\* C39: KvDeleteRange with need_lease_remove_keys asks for the removal from
\* its lease of every deleted key whose lease is not zero: for each lease the
\* key set passed to the removal is the set of all deleted keys bound to it,
\* also when two or more deleted keys share the lease
C39_LeaseRemovalNamesEveryKey ==
  \A key \in Keys, range_end \in RangeEnds \cup LiteralEnds :
    \A r \in {KvDeleteRange(kv_index_map, kv_rev_map, kv_lease_map, key, range_end, TRUE,
                            next_revision, FirstSub, TRUE, 0)} :
      \A kvs \in {KvRange(kv_index_map, kv_rev_map, key, range_end, 0, FALSE, FALSE, 0).kv} :
        /\ DOMAIN r.keys_to_remove_lease = {kvs[i].lease : i \in DOMAIN kvs} \ {0}
        /\ \A lease \in DOMAIN r.keys_to_remove_lease :
             r.keys_to_remove_lease[lease] = KeysBoundTo(kvs, lease)

\* ------------------------------------------------ KvRangeRawKeys and KvRange
\* C40: KvRangeRawKeys returns exactly the keys KvRange with limit 0 returns
\* for the same key and range_end, in the point form (range_end empty) and in
\* the range form: only keys whose last generation is open, never a key whose
\* KeyIndex exists but is a tombstone
C40_RawKeysAreRangeKeys ==
  \A key \in Keys, range_end \in {EmptyStr} \cup RangeEnds \cup LiteralEnds :
    \A keys \in {KvRangeRawKeys(kv_index_map, key, range_end)} :
      /\ keys = KeysOf(KvRange(kv_index_map, kv_rev_map, key, range_end, 0, FALSE, FALSE, 0).kv)
      /\ \A i \in DOMAIN keys : HasValue(kv_index_map, keys[i])

=============================================================================
